---------------------------- MODULE Spec2Model ----------------------------
(***************************************************************************)
(* AMIE novelty-assessment agent (backend/amie/agents/naa.py).             *)
(*                                                                         *)
(* Seven specifications share this module:                                 *)
(*   SpecDedup    - _dedup_resolved applied to bounded lists of resolved   *)
(*                  references;                                            *)
(*   SpecExpander - _openalex_fetch_cited_by, one step per loop statement; *)
(*   Spec         - naa_node, one step per external call;                  *)
(*   SpecStorage  - the GCS-mode tail of two invocations of naa_node that  *)
(*                  run at the same time on one bucket;                    *)
(*   SpecGraph    - one run of the compiled graph (graph.py);              *)
(*   SpecIdca     - idca_node, one step per generation call (idca.py);     *)
(*   SpecApp      - /invoke, its background task and /state polls on the   *)
(*                  InMemoryStore (app/main.py, app/store.py).             *)
(* Strings are Python strings; the string conversions of the code (strip,  *)
(* lower, regular-expression substitution) are tabulated over the strings  *)
(* the model uses.                                                         *)
(***************************************************************************)
EXTENDS Integers, Sequences, FiniteSets, TLC

VARIABLES
    d_pc,       \* dedup harness: "input" | "once" | "twice"
    d_in,       \* results: the list handed to _dedup_resolved
    d_out,      \* _dedup_resolved(results)
    d_out2,     \* _dedup_resolved(_dedup_resolved(results))
    fetch,      \* one call of _openalex_fetch_cited_by: its locals and position
    naa,        \* one invocation of naa_node: its arguments, locals, position and result
    runs,       \* invocations of naa_node running at the same time, by number
    clock,      \* the second _now_iso reads
    bucket,     \* GCS_BUCKET: object path -> the invocation whose bytes the object holds
    graph,      \* one run of the compiled graph: the node due, the nodes run, their statuses
    idca,       \* one invocation of idca_node: its locals, position and result
    app         \* the API process: the store, the background task, the polls

dedupVars == <<d_pc, d_in, d_out, d_out2>>

storageVars == <<runs, clock, bucket>>

amieVars == <<graph, idca, app>>

pipelineVars == <<dedupVars, fetch, naa, storageVars>>

vars == <<dedupVars, fetch, naa, storageVars, amieVars>>

--------------------------------------------------------------------------
(* Python string helpers, tabulated.                                       *)

\* a or b, for strings: the first truthy (non-empty) operand
StrOr(a, b) == IF a # "" THEN a ELSE b

\* str.strip()
Strip(s) ==
    CASE s = " "        -> ""
      [] s = " 10.2/b " -> "10.2/b"
      [] OTHER          -> s

\* str.lower()
Lower(s) ==
    CASE s = "10.1/A"     -> "10.1/a"
      [] s = "Deep  Nets" -> "deep  nets"
      [] s = "Other"      -> "other"
      [] s = "W1"         -> "w1"
      [] s = "W2"         -> "w2"
      [] s = "W3"         -> "w3"
      [] s = "W4"         -> "w4"
      [] s = "W5"         -> "w5"
      [] s = "W6"         -> "w6"
      [] s = "Widget"     -> "widget"
      [] s = "Gadget"     -> "gadget"
      [] s = "Device"     -> "device"
      [] OTHER            -> s

\* re.sub(r"\s+", " ", (t or "").strip().lower())
normalize_title(t) ==
    LET l == Lower(Strip(t))
    IN  CASE l = "deep  nets" -> "deep nets"
          [] OTHER            -> l

\* _normalize_openalex_id: 'https://openalex.org/W1' | 'openalex.org/W1' | 'W1' -> 'W1'
normalize_openalex_id(oid) ==
    LET s == Strip(oid)
    IN  CASE s = ""                        -> ""
          [] s = "https://openalex.org/W1" -> "W1"   \* startswith("http"): last path segment
          [] s = "https://openalex.org/W2" -> "W2"
          [] s = "https://openalex.org/W4" -> "W4"
          [] s = "https://openalex.org/W5" -> "W5"
          [] s = "https://openalex.org/W6" -> "W6"
          [] s = "openalex.org/w1"         -> "w1"   \* contains "openalex.org/": rsplit
          [] OTHER                         -> s

--------------------------------------------------------------------------
(* _dedup_resolved                                                         *)

\* make_key swapped: the doi is looked at before the openalex id
make_key_doi_first(item) ==
    LET w == item.openalex_work
        cr == item.crossref
        openalex_id == normalize_openalex_id(Strip(w.openalex_id))
        doi == Lower(Strip(StrOr(cr.doi, w.doi)))
    IN  IF doi # "" THEN <<"doi", doi>>
        ELSE IF openalex_id # "" THEN <<"oa", Lower(openalex_id)>>
        ELSE <<"ty", normalize_title(StrOr(cr.title, w.title)), Strip(w.year)>>

\* make_key(item): "oa:<id>", else "doi:<doi>", else "ty:<title>|<year>";
\* the key string is modelled as the tuple of its parts
make_key(item) ==
    LET w == item.openalex_work
        cr == item.crossref
        openalex_id == normalize_openalex_id(Strip(w.openalex_id))
        doi == Lower(Strip(StrOr(cr.doi, w.doi)))
    IN  IF openalex_id # "" THEN <<"oa", Lower(openalex_id)>>
        ELSE IF doi # "" THEN <<"doi", doi>>
        ELSE <<"ty", normalize_title(StrOr(cr.title, w.title)), Strip(w.year)>>

\* the loop of _dedup_resolved from position i, with the keys seen and the output so far
RECURSIVE dedup_loop(_, _, _, _)
dedup_loop(results, i, seen, out) ==
    IF i > Len(results) THEN out
    ELSE LET key == make_key(results[i])
         IN  IF key # <<>> /\ key \notin seen
             THEN dedup_loop(results, i + 1, seen \cup {key}, Append(out, results[i]))
             ELSE dedup_loop(results, i + 1, seen, out)

\* the loop with a duplicate's key forgotten again once the duplicate is dropped
RECURSIVE dedup_loop_forgets(_, _, _, _)
dedup_loop_forgets(results, i, seen, out) ==
    IF i > Len(results) THEN out
    ELSE LET key == make_key(results[i])
         IN  IF key # <<>> /\ key \notin seen
             THEN dedup_loop_forgets(results, i + 1, seen \cup {key}, Append(out, results[i]))
             ELSE dedup_loop_forgets(results, i + 1, seen \ {key}, out)

\* the loop keeping the last record of a key in place of the first
RECURSIVE dedup_loop_keeps_last(_, _, _, _)
dedup_loop_keeps_last(results, i, seen, out) ==
    IF i > Len(results) THEN out
    ELSE LET key == make_key(results[i])
             later == \E j \in (i + 1)..Len(results) : make_key(results[j]) = key
         IN  IF ~later
             THEN dedup_loop_keeps_last(results, i + 1, seen, Append(out, results[i]))
             ELSE dedup_loop_keeps_last(results, i + 1, seen, out)

dedup_resolved_forgets(results) == dedup_loop_forgets(results, 1, {}, <<>>)

dedup_resolved_keeps_last(results) == dedup_loop_keeps_last(results, 1, {}, <<>>)

dedup_resolved(results) == dedup_loop(results, 1, {}, <<>>)

--------------------------------------------------------------------------
(* The lists SpecDedup hands to _dedup_resolved.                           *)

MaxResults == 3

EmptyWork == [openalex_id |-> "", doi |-> "", title |-> "", year |-> ""]

\* the "openalex_work" of a resolved reference: {} or a work of _openalex_by_dois /
\* _openalex_search_title (the fields make_key reads)
DedupWorks ==
    { EmptyWork,
      [openalex_id |-> "https://openalex.org/W1", doi |-> "10.1/a", title |-> "deep nets", year |-> "2019"],
      [openalex_id |-> "openalex.org/w1", doi |-> " 10.2/b ", title |-> "Other", year |-> "2020"],
      [openalex_id |-> "W2", doi |-> "10.1/a", title |-> "deep nets", year |-> "2019"],
      [openalex_id |-> "", doi |-> "10.1/a", title |-> "deep nets", year |-> "2019"],
      [openalex_id |-> "", doi |-> " 10.2/b ", title |-> "deep nets", year |-> "2019"],
      [openalex_id |-> "", doi |-> "", title |-> "deep nets", year |-> "2019"],
      [openalex_id |-> "", doi |-> "", title |-> "deep nets", year |-> "2020"] }

\* the "crossref" of a resolved reference (the fields make_key reads)
DedupCrossrefs ==
    { [doi |-> "", title |-> ""],
      [doi |-> "10.1/A", title |-> "Deep  Nets"],
      [doi |-> "", title |-> "Deep  Nets"] }

DedupItems == [crossref : DedupCrossrefs, openalex_work : DedupWorks]

SeqsUpTo(S, n) == UNION { [1..k -> S] : k \in 0..n }

\* no call of _openalex_fetch_cited_by in progress
FetchIdle == [pc |-> "idle"]

\* no invocation of naa_node in progress
NaaIdle == [pc |-> "idle"]

\* no dedup harness
DedupIdle == d_pc = "idle" /\ d_in = <<>> /\ d_out = <<>> /\ d_out2 = <<>>

\* no invocations side by side
StorageIdle == runs = <<>> /\ clock = "" /\ bucket = <<>>

\* no graph run, no idca_node, no API process
AmieIdle == graph = [pc |-> "idle"] /\ idca = [pc |-> "idle"] /\ app = [pc |-> "idle"]

DedupInit ==
    /\ StorageIdle
    /\ AmieIdle
    /\ fetch = FetchIdle
    /\ naa = NaaIdle
    /\ d_pc = "input"
    /\ d_in \in SeqsUpTo(DedupItems, MaxResults)
    /\ d_out = <<>>
    /\ d_out2 = <<>>

\* deduped = _dedup_resolved(resolved_results)
DedupOnce ==
    /\ d_pc = "input"
    /\ d_out' = dedup_resolved(d_in)
    /\ d_pc' = "once"
    /\ UNCHANGED <<d_in, d_out2, fetch, naa, storageVars, amieVars>>

\* _dedup_resolved applied to its own result
DedupTwice ==
    /\ d_pc = "once"
    /\ d_out2' = dedup_resolved(d_out)
    /\ d_pc' = "twice"
    /\ UNCHANGED <<d_in, d_out, fetch, naa, storageVars, amieVars>>

DedupNext == DedupOnce \/ DedupTwice

SpecDedup == DedupInit /\ [][DedupNext]_vars

--------------------------------------------------------------------------
(* Claims about _dedup_resolved, checked under SpecDedup.                  *)

\* the three identity levels of a resolved reference, as make_key reads them
CanonicalId(item) == Lower(normalize_openalex_id(Strip(item.openalex_work.openalex_id)))

Identifier(item) == Lower(Strip(StrOr(item.crossref.doi, item.openalex_work.doi)))

TitleYear(item) ==
    <<normalize_title(StrOr(item.crossref.title, item.openalex_work.title)),
      Strip(item.openalex_work.year)>>

\* the pairwise identity of the data model: canonicalId if both present, else
\* identifier ignoring case if both present, else normalized title+year
SameEntity(a, b) ==
    IF CanonicalId(a) # "" /\ CanonicalId(b) # "" THEN CanonicalId(a) = CanonicalId(b)
    ELSE IF Identifier(a) # "" /\ Identifier(b) # "" THEN Identifier(a) = Identifier(b)
    ELSE TitleYear(a) = TitleYear(b)

\* C2: dedup is idempotent: _dedup_resolved(_dedup_resolved(L)) = _dedup_resolved(L)
\* for every list L of resolved references.
C2_DedupIdempotent == d_pc = "twice" => d_out2 = d_out

\* C2 witness: a list of three from which dedup dropped one, deduplicated twice.
C2_Witness == d_pc = "twice" /\ Len(d_in) = 3 /\ Len(d_out) = 2

\* C3: for two records, same canonicalId (both present) collapses them even if the
\* identifiers differ; both lacking a canonicalId, identifiers equal ignoring case
\* collapses them; both lacking both, equal normalized title and year collapses
\* them; and two records that differ at the first level available to both are
\* both kept, whatever a lower level says.
C3_IdentityPriority ==
    (d_pc # "input" /\ Len(d_in) = 2) =>
        LET a == d_in[1]
            b == d_in[2]
        IN  /\ (CanonicalId(a) # "" /\ CanonicalId(a) = CanonicalId(b)) => d_out = <<a>>
            /\ (CanonicalId(a) = "" /\ CanonicalId(b) = ""
                   /\ Identifier(a) # "" /\ Identifier(a) = Identifier(b)) => d_out = <<a>>
            /\ (CanonicalId(a) = "" /\ CanonicalId(b) = ""
                   /\ Identifier(a) = "" /\ Identifier(b) = ""
                   /\ TitleYear(a) = TitleYear(b)) => d_out = <<a>>
            /\ ~SameEntity(a, b) => d_out = <<a, b>>

\* C3 witness: two records with one canonicalId written two ways and different
\* identifiers, collapsed to the first.
C3_Witness ==
    /\ d_pc # "input" /\ Len(d_in) = 2
    /\ d_in[1].openalex_work.openalex_id # d_in[2].openalex_work.openalex_id
    /\ CanonicalId(d_in[1]) # "" /\ CanonicalId(d_in[1]) = CanonicalId(d_in[2])
    /\ Identifier(d_in[1]) # Identifier(d_in[2])
    /\ d_out = <<d_in[1]>>

\* C4 (as claimed): the canonicalId level is used only when both records have one:
\* if exactly one of two records has a canonicalId and their identifiers are equal
\* ignoring case, only the first is kept; likewise if only one has an identifier
\* and normalized title+year are equal.
C4_MixedLevelsCollapse ==
    (d_pc # "input" /\ Len(d_in) = 2) =>
        LET a == d_in[1]
            b == d_in[2]
        IN  /\ ((CanonicalId(a) = "") # (CanonicalId(b) = "")
                   /\ Identifier(a) # "" /\ Identifier(a) = Identifier(b)) => d_out = <<a>>
            /\ (CanonicalId(a) = "" /\ CanonicalId(b) = ""
                   /\ (Identifier(a) = "") # (Identifier(b) = "")
                   /\ TitleYear(a) = TitleYear(b)) => d_out = <<a>>

\* the positions of the first record of each key
FirstOfKey(results) ==
    { i \in 1..Len(results) :
        \A j \in 1..(i - 1) : make_key(results[j]) # make_key(results[i]) }

\* the subsequence of results at the positions in keep, in the original order
SubSeqAt(results, keep) ==
    LET idx == SelectSeq([i \in 1..Len(results) |-> i], LAMBDA i : i \in keep)
    IN  [k \in 1..Len(idx) |-> results[idx[k]]]

\* C5: the output of dedup is the subsequence of its input, in the original order,
\* made of exactly the first record of each key: a record is dropped iff an earlier
\* record of the list has its key.
C5_KeepsFirstInOrder == d_pc # "input" => d_out = SubSeqAt(d_in, FirstOfKey(d_in))

\* C5 witness: the third record differs from the first but has its key; the first
\* and second are kept, in order.
C5_Witness ==
    /\ d_pc # "input" /\ Len(d_in) = 3
    /\ d_in[1] # d_in[3] /\ make_key(d_in[1]) = make_key(d_in[3])
    /\ d_out = <<d_in[1], d_in[2]>>


--------------------------------------------------------------------------
(* _openalex_fetch_cited_by                                                *)

MAX_CITEDBY_PAGES == 50

OPENALEX_PAGE_SIZE == 200

MaxPageItems == 2

MaxExpected == 3

\* expected_total = None (the work's cited_by_count is not an int)
NoExpectedTotal == -1

\* what one page request can do: raise (HTTP error, a JSON document that is not an
\* object), or answer n results and meta.next_cursor ("" : none)
PageReplies ==
    { [kind |-> "raise", n |-> 0, next_cursor |-> ""] }
    \cup [kind : {"ok"}, n : 0..MaxPageItems, next_cursor : {"", "c"}]

NoReply == [kind |-> "none", n |-> 0, next_cursor |-> ""]

\* the locals of _openalex_fetch_cited_by before its loop; out is len(out)
fetch_start(oaid_or_url, cited_by_api_url, expected_total) ==
    LET slug == normalize_openalex_id(oaid_or_url)
    IN  [ pc             |-> "loop",
          slug           |-> slug,
          base_url       |-> IF cited_by_api_url # "" THEN cited_by_api_url
                             ELSE "https://api.openalex.org/works",
          filter         |-> IF cited_by_api_url # "" THEN <<>> ELSE <<"cites", slug>>,
          per_page       |-> OPENALEX_PAGE_SIZE,
          cursor         |-> "*",
          expected_total |-> expected_total,
          pages          |-> 0,
          out            |-> 0,
          js             |-> NoReply,
          requests       |-> 0,
          sleeps         |-> 0 ]

\* the page cap, tested one page late
fetch_loop_head_late(f) ==
    [f EXCEPT !.pages = @ + 1,
              !.pc = IF f.pages + 1 > MAX_CITEDBY_PAGES + 1 THEN "return" ELSE "get"]

\* pages += 1; if pages > MAX_CITEDBY_PAGES: break
fetch_loop_head(f) ==
    [f EXCEPT !.pages = @ + 1,
              !.pc = IF f.pages + 1 > MAX_CITEDBY_PAGES THEN "return" ELSE "get"]

\* the stop rule on the expected total, applied to a total of 0 as well
expected_total_met_from_zero(expected_total, n) ==
    expected_total # NoExpectedTotal /\ expected_total >= 0 /\ n >= expected_total

\* the stop rule on the expected total, with > in place of >=
expected_total_met_strict(expected_total, n) ==
    expected_total # NoExpectedTotal /\ expected_total > 0 /\ n > expected_total

\* isinstance(expected_total, int) and expected_total > 0 and len(out) >= expected_total
expected_total_met(expected_total, n) ==
    expected_total # NoExpectedTotal /\ expected_total > 0 /\ n >= expected_total

\* the page request going on to the next iteration without time.sleep
fetch_get_no_delay(f, reply) ==
    IF reply.kind = "raise"
    THEN [f EXCEPT !.requests = @ + 1, !.js = reply, !.pc = "raise"]
    ELSE [f EXCEPT !.requests = @ + 1,
                   !.js = reply,
                   !.out = @ + reply.n,
                   !.cursor = IF expected_total_met(f.expected_total, f.out + reply.n)
                                 \/ reply.next_cursor = ""
                              THEN @ ELSE reply.next_cursor,
                   !.pc = IF expected_total_met(f.expected_total, f.out + reply.n) THEN "return"
                          ELSE IF reply.next_cursor = "" THEN "return"
                          ELSE "loop"]

\* js = _quiet_http_get(...); out.append(...); the two breaks; params["cursor"] = next_cursor
fetch_get(f, reply) ==
    IF reply.kind = "raise"
    THEN [f EXCEPT !.requests = @ + 1, !.js = reply, !.pc = "raise"]
    ELSE [f EXCEPT !.requests = @ + 1,
                   !.js = reply,
                   !.out = @ + reply.n,
                   !.cursor = IF expected_total_met(f.expected_total, f.out + reply.n)
                                 \/ reply.next_cursor = ""
                              THEN @ ELSE reply.next_cursor,
                   !.pc = IF expected_total_met(f.expected_total, f.out + reply.n) THEN "return"
                          ELSE IF reply.next_cursor = "" THEN "return"
                          ELSE "sleep"]

\* time.sleep(0.08), then the next iteration
fetch_sleep(f) == [f EXCEPT !.sleeps = @ + 1, !.pc = "loop"]

\* a call of _openalex_fetch_cited_by on its own
ExpanderInit ==
    /\ DedupIdle
    /\ StorageIdle
    /\ AmieIdle
    /\ naa = NaaIdle
    /\ \E api \in {"", "https://api.openalex.org/works?filter=cites:W1"},
          expected \in {NoExpectedTotal} \cup 0..MaxExpected :
          fetch = fetch_start("W1", api, expected)

FetchLoopHead ==
    /\ fetch.pc = "loop"
    /\ fetch' = fetch_loop_head(fetch)
    /\ UNCHANGED <<dedupVars, naa, storageVars, amieVars>>

FetchGet ==
    /\ fetch.pc = "get"
    /\ \E reply \in PageReplies : fetch' = fetch_get(fetch, reply)
    /\ UNCHANGED <<dedupVars, naa, storageVars, amieVars>>

FetchSleep ==
    /\ fetch.pc = "sleep"
    /\ fetch' = fetch_sleep(fetch)
    /\ UNCHANGED <<dedupVars, naa, storageVars, amieVars>>

ExpanderNext == FetchLoopHead \/ FetchGet \/ FetchSleep

SpecExpander == ExpanderInit /\ [][ExpanderNext]_vars

--------------------------------------------------------------------------
(* Claims about _openalex_fetch_cited_by, checked under SpecExpander.      *)

\* C10: for a known positive expected total T and pages of any size, once the
\* accumulated number of citing works is >= T the expander has returned: no page
\* request, delay or loop step follows, next cursor or not.
C10_StopsAtExpectedTotal ==
    (fetch.pc # "idle" /\ fetch.expected_total > 0 /\ fetch.out >= fetch.expected_total)
        => fetch.pc = "return"

\* C10 witness: the expander returned after its second page, which reached the
\* expected total and carried a next cursor, well below the page cap.
C10_Witness ==
    /\ fetch.pc = "return"
    /\ fetch.expected_total > 0 /\ fetch.out >= fetch.expected_total
    /\ fetch.requests = 2 /\ fetch.js.next_cursor # ""
    /\ fetch.pages < MAX_CITEDBY_PAGES


--------------------------------------------------------------------------
(* naa_node: the data of the external services.                            *)

S1 == "Smith 2019 Widget"
S2 == "Jones 2020 Gadget"
S3 == "Lee 2021 Device"
S4 == "Park 2018 Apparatus"
S5 == "Adams 2017 Alpha"
S6 == "Baker 2016 Beta"
S7 == "Chen 2015 Gamma"

\* a JSON value that is not a string
NonString == "<number>"

\* isinstance(r, str) and r.strip()
nonblank_str(r) == r # NonString /\ Strip(r) # ""

\* _strip_bracket_prefix: a leading "[n]" removed, whitespace collapsed
strip_bracket_prefix(cite) ==
    CASE cite = "[1] Smith 2019 Widget" -> S1
      [] OTHER                          -> Strip(cite)

\* what a structured-generation call can do: raise (the service fails, or its text
\* is not JSON), or return a JSON value: not of the expected shape, or the
\* expected array / object, whose list is "items"
NoObj == [kind |-> "none", items |-> <<>>]

RefsReplies ==
    { [kind |-> "raise", items |-> <<>>],
      [kind |-> "scalar", items |-> <<>>] }       \* a number, true, null: not iterable
    \cup [kind : {"array"},
          items : { <<>>, <<" ", NonString>>, <<"[1] Smith 2019 Widget">>, <<S1, S2, S3, S4>>,
                    <<S5, S6, S3, S4>>, <<S7, S1>> }]

RankReplies ==
    { [kind |-> "raise", items |-> <<>>],
      [kind |-> "nonobject", items |-> <<>>] }    \* an array, a string, null: no .get
    \cup [kind : {"object"},
          items : { <<>>, <<S1>>, <<S1, S2>>, <<S3, S4>>, <<S5, S6>>, <<S7, S1>>, <<S1, "zz">>,
                    <<S1, S2, " ">>, <<S1, S2, S3>>, <<S1, NonString>> }]

EmptyMeta == [doi |-> "", title |-> "", url |-> "", pdf_url |-> ""]

\* the top Crossref hit for a citation; EmptyMeta: no hit ({})
crossref_top_hit(cite_str) ==
    CASE cite_str = S1 -> [doi |-> "10.1/smith", title |-> "Widget",
                           url |-> "https://doi.org/10.1/smith", pdf_url |-> ""]
      [] cite_str = S2 -> [doi |-> "10.1/jones", title |-> "Gadget",
                           url |-> "https://doi.org/10.1/jones",
                           pdf_url |-> "https://pub.example/jones.pdf"]
      [] cite_str = S3 -> [doi |-> "", title |-> "Device",
                           url |-> "https://arxiv.org/abs/2101.00001", pdf_url |-> ""]
      [] cite_str = S7 -> [doi |-> "10.1/chen", title |-> "Gamma", url |-> "", pdf_url |-> ""]
      [] OTHER         -> EmptyMeta

\* what a Crossref request can do: raise (HTTP error, unexpected JSON shape) or answer
CrossrefReplies == {"raise", "ok"}

\* work = {}
NoWork ==
    [title |-> "", doi |-> "", url |-> "", pdf_url |-> "", year |-> "", openalex_id |-> "",
     cited_by_count |-> NoExpectedTotal, cited_by_api_url |-> ""]

WorkSmith ==
    [title |-> "Widget", doi |-> "10.1/smith", url |-> "https://doi.org/10.1/smith",
     pdf_url |-> "", year |-> "2019", openalex_id |-> "https://openalex.org/W1",
     cited_by_count |-> 2, cited_by_api_url |-> "https://api.openalex.org/works?filter=cites:W1"]

WorkJones ==
    [title |-> "Gadget", doi |-> "10.1/jones", url |-> "https://doi.org/10.1/jones",
     pdf_url |-> "https://pub.example/jones.pdf", year |-> "2010",
     openalex_id |-> "https://openalex.org/W2",
     cited_by_count |-> 0, cited_by_api_url |-> ""]

WorkLee ==
    [title |-> "Device", doi |-> "", url |-> "https://arxiv.org/abs/2101.00001",
     pdf_url |-> "", year |-> "2021", openalex_id |-> "W3",
     cited_by_count |-> 1, cited_by_api_url |-> "https://api.openalex.org/works?filter=cites:W3"]

\* works OpenAlex knows by title only: no DOI, no landing page, no open-access
\* location, cited_by_count missing or 0
WorkPark ==
    [title |-> "Apparatus", doi |-> "", url |-> "", pdf_url |-> "", year |-> "2018",
     openalex_id |-> "https://openalex.org/W4", cited_by_count |-> 0, cited_by_api_url |-> ""]

WorkAdams ==
    [title |-> "Alpha", doi |-> "", url |-> "", pdf_url |-> "", year |-> "2017",
     openalex_id |-> "https://openalex.org/W5", cited_by_count |-> 0, cited_by_api_url |-> ""]

WorkBaker ==
    [title |-> "Beta", doi |-> "", url |-> "", pdf_url |-> "", year |-> "",
     openalex_id |-> "https://openalex.org/W6", cited_by_count |-> 0, cited_by_api_url |-> ""]

\* the OpenAlex work with a DOI; NoWork: results is empty
openalex_work_of_doi(doi) ==
    CASE doi = "10.1/smith" -> WorkSmith
      [] doi = "10.1/jones" -> WorkJones
      [] OTHER              -> NoWork

\* the top OpenAlex hit of a title search; NoWork: results is empty
openalex_work_of_title(title) ==
    CASE title = "Widget" -> WorkSmith
      [] title = "Gadget" -> WorkJones
      [] title = "Device" -> WorkLee
      [] title = S4       -> WorkPark
      [] title = S5       -> WorkAdams
      [] title = S6       -> WorkBaker
      [] OTHER            -> NoWork

\* what an OpenAlex works request can do: raise, answer no result, answer the work
OpenAlexReplies == {"raise", "empty", "ok"}

\* the page replies of one cited-by listing: every page carries n results, the
\* first cursor_pages pages a next cursor, and page raise_at (0: none) raises
PageScripts ==
    { [n |-> 0, cursor_pages |-> 0, raise_at |-> 1],
      [n |-> 0, cursor_pages |-> 0, raise_at |-> 0],
      [n |-> 1, cursor_pages |-> 0, raise_at |-> 0],
      [n |-> 1, cursor_pages |-> 1, raise_at |-> 2],
      [n |-> 1, cursor_pages |-> MAX_CITEDBY_PAGES, raise_at |-> 0] }

script_reply(script, page) ==
    IF page = script.raise_at THEN [kind |-> "raise", n |-> 0, next_cursor |-> ""]
    ELSE [kind |-> "ok", n |-> script.n,
          next_cursor |-> IF page <= script.cursor_pages THEN "c" ELSE ""]

\* _openalex_fetch_cited_by run to its return or its exception against a script
RECURSIVE run_fetch(_, _)
run_fetch(f, script) ==
    CASE f.pc = "loop"  -> run_fetch(fetch_loop_head(f), script)
      [] f.pc = "get"   -> run_fetch(fetch_get(f, script_reply(script, f.pages)), script)
      [] f.pc = "sleep" -> run_fetch(fetch_sleep(f), script)
      [] OTHER          -> f


--------------------------------------------------------------------------
(* naa_node: arguments, locals and result.                                 *)

NoOverride == [title |-> "", pdf_url |-> ""]

\* the GraphState handed to naa_node, as far as it reads it
States ==
    { [idca_status |-> "FAILED",   idca_doc_gcs_uri |-> "gs://amie/doc.pdf", summary |-> "summary"],
      [idca_status |-> "FINISHED", idca_doc_gcs_uri |-> "",                  summary |-> "summary"],
      [idca_status |-> "FINISHED", idca_doc_gcs_uri |-> "gs://amie/doc.pdf", summary |-> "summary"] }

\* config["configurable"]: absent, without a genai client, or complete
Configs ==
    { [configurable |-> FALSE, genai_client |-> FALSE, naa_step7_remote |-> FALSE,
       naa_step7_override_pdf |-> NoOverride],
      [configurable |-> TRUE, genai_client |-> FALSE, naa_step7_remote |-> FALSE,
       naa_step7_override_pdf |-> NoOverride] }
    \cup [configurable : {TRUE}, genai_client : {TRUE}, naa_step7_remote : BOOLEAN,
          naa_step7_override_pdf :
              { NoOverride, [title |-> "", pdf_url |-> "https://arxiv.org/abs/9999.00001"] }]

NoNote == [where |-> "", stage |-> "", rank |-> NoObj]

NoCounts ==
    [refs_total |-> 0, dois_resolved |-> 0, baseline_top2 |-> 0, innovation_top2 |-> 0,
     openalex_resolved_ok |-> 0, unique_after_dedup |-> 0]

\* step7_result = {"status": "unclear"}
Step7Unclear ==
    [status |-> "unclear", reason |-> "", network_title |-> "", network_pdf_url |-> "",
     network_pdf_gcs |-> "", same |-> <<>>, new |-> <<>>]

NoCandidate == [title |-> "", pdf_url |-> "", year |-> ""]

\* naa_node has not returned
NoResult ==
    [kind |-> "none", status |-> "", message |-> "", note |-> NoNote,
     reference_urls |-> <<>>, temp_step7 |-> Step7Unclear, counts |-> NoCounts]

\* the external calls issued, by kind
NoCalls ==
    [refs_llm |-> 0, crossref |-> 0, baseline_llm |-> 0, innovation_llm |-> 0,
     negotiation |-> 0, download |-> 0, upload |-> 0, compare_llm |-> 0]

\* naa_node(state, config) at its first statement
naa_start(state, config) ==
    [ pc               |-> "precheck",
      state            |-> state,
      config           |-> config,
      references_all   |-> <<>>,
      crossref_hits    |-> <<>>,
      ref2meta         |-> <<>>,
      doi_count        |-> 0,
      baseline_obj     |-> NoObj,
      baseline_top2    |-> <<>>,
      innovation_obj   |-> NoObj,
      innovation_top2  |-> <<>>,
      i                |-> 0,
      resolved_results |-> <<>>,
      resolved_ok      |-> 0,
      candidates_any   |-> <<>>,
      chosen           |-> NoCandidate,
      pdf_bytes        |-> "",
      network_gcs_uri  |-> <<>>,
      step7_result     |-> Step7Unclear,
      result           |-> NoResult,
      last_call        |-> "none",
      calls            |-> NoCalls ]

\* return _fail(msg, state, internals_note=note)
fail(n, msg, note) ==
    [n EXCEPT !.pc = "done",
              !.result = [kind |-> "return", status |-> "FAILED", message |-> msg,
                          note |-> note, reference_urls |-> <<>>,
                          temp_step7 |-> Step7Unclear, counts |-> NoCounts]]

\* an exception leaves naa_node
raise(n, exc) ==
    [n EXCEPT !.pc = "done",
              !.result = [kind |-> "raise", status |-> "", message |-> exc,
                          note |-> NoNote, reference_urls |-> <<>>,
                          temp_step7 |-> Step7Unclear, counts |-> NoCounts]]

\* the external call of a kind is issued
called(n, kind) ==
    [n EXCEPT !.last_call = kind]

counted(n, kind) ==
    [n EXCEPT !.last_call = kind, !.calls[kind] = @ + 1]

NaaInit ==
    /\ DedupIdle
    /\ StorageIdle
    /\ AmieIdle
    /\ fetch = FetchIdle
    /\ \E state \in States, config \in Configs : naa = naa_start(state, config)

--------------------------------------------------------------------------
(* naa_node: the upstream check and steps 1 to 4.                          *)

\* the checks before step 1, without the one for the genai client
precheck_without_client_check(n) ==
    IF n.state.idca_status # "FINISHED"
    THEN fail(n, "[NAA] Upstream not finished", NoNote)
    ELSE IF n.state.idca_doc_gcs_uri = ""
    THEN fail(n, "[NAA] No invention PDF found (idca.doc_gcs_uri).",
              [NoNote EXCEPT !.where = "precheck"])
    ELSE IF ~n.config.configurable
    THEN fail(n, "[NAA] No config found", [NoNote EXCEPT !.where = "precheck"])
    ELSE [n EXCEPT !.pc = "step1"]

\* the checks before step 1
precheck(n) ==
    IF n.state.idca_status # "FINISHED"
    THEN fail(n, "[NAA] Upstream not finished", NoNote)
    ELSE IF n.state.idca_doc_gcs_uri = ""
    THEN fail(n, "[NAA] No invention PDF found (idca.doc_gcs_uri).",
              [NoNote EXCEPT !.where = "precheck"])
    ELSE IF ~n.config.configurable
    THEN fail(n, "[NAA] No config found", [NoNote EXCEPT !.where = "precheck"])
    ELSE IF ~n.config.genai_client
    THEN fail(n, "[NAA] No genai client found", [NoNote EXCEPT !.where = "precheck"])
    ELSE [n EXCEPT !.pc = "step1"]

Precheck ==
    /\ naa.pc = "precheck"
    /\ naa' = precheck(naa)
    /\ UNCHANGED <<dedupVars, fetch, storageVars, amieVars>>

\* [_strip_bracket_prefix(r) for r in refs_raw if isinstance(r, str) and r.strip()]
RECURSIVE clean_refs(_)
clean_refs(refs_raw) ==
    IF refs_raw = <<>> THEN <<>>
    ELSE IF nonblank_str(Head(refs_raw))
         THEN <<strip_bracket_prefix(Head(refs_raw))>> \o clean_refs(Tail(refs_raw))
         ELSE clean_refs(Tail(refs_raw))

\* step 1: the reference list is asked of the LLM and cleaned
step1(n, reply) ==
    LET m == counted(n, "refs_llm")
    IN  IF reply.kind = "raise"
        THEN fail(m, "[NAA] step 1 LLM failed", [NoNote EXCEPT !.stage = "step1"])
        ELSE IF reply.kind = "scalar"
        THEN raise(m, "TypeError: object is not iterable")
        ELSE LET references_all == clean_refs(reply.items)
             IN  IF references_all = <<>>
                 THEN fail(m, "[NAA] step 1 produced empty reference list",
                           [NoNote EXCEPT !.stage = "step1"])
                 ELSE [m EXCEPT !.references_all = references_all, !.pc = "step2", !.i = 1]

Step1ExtractRefs ==
    /\ naa.pc = "step1"
    /\ \E reply \in RefsReplies : naa' = step1(naa, reply)
    /\ UNCHANGED <<dedupVars, fetch, storageVars, amieVars>>

\* for raw, meta in zip(references_all, crossref_hits): ref2meta[raw.strip()] = meta
\* ref2meta built against the hits in reverse order
ref2meta_of_reversed(references_all, crossref_hits) ==
    [key \in {Strip(references_all[k]) : k \in 1..Len(references_all)} |->
        LET last == CHOOSE k \in 1..Len(references_all) :
                        /\ Strip(references_all[k]) = key
                        /\ \A j \in (k + 1)..Len(references_all) :
                               Strip(references_all[j]) # key
        IN  crossref_hits[Len(references_all) + 1 - last]]

ref2meta_of(references_all, crossref_hits) ==
    [key \in {Strip(references_all[k]) : k \in 1..Len(references_all)} |->
        LET last == CHOOSE k \in 1..Len(references_all) :
                        /\ Strip(references_all[k]) = key
                        /\ \A j \in (k + 1)..Len(references_all) :
                               Strip(references_all[j]) # key
        IN  crossref_hits[last]]

\* the number of hits with a DOI
doi_count_of(crossref_hits) ==
    Cardinality({k \in 1..Len(crossref_hits) : crossref_hits[k].doi # ""})

\* step 2 with every lookup issued a second time
step2_looks_up_twice(n, reply) ==
    LET cite_str == n.references_all[n.i]
        m == counted(counted(n, "crossref"), "crossref")
        hits == Append(n.crossref_hits, crossref_top_hit(cite_str))
    IN  IF reply = "raise"
        THEN fail(m, "[NAA] step 2 Crossref failed", [NoNote EXCEPT !.stage = "step2"])
        ELSE IF n.i < Len(n.references_all)
        THEN [m EXCEPT !.crossref_hits = hits, !.i = @ + 1]
        ELSE [m EXCEPT !.crossref_hits = hits,
                       !.ref2meta = ref2meta_of(n.references_all, hits),
                       !.doi_count = doi_count_of(hits),
                       !.pc = "step3"]

\* step 2 giving up after the first reference: the others get no lookup and {}
step2_first_only(n, reply) ==
    LET m == counted(n, "crossref")
        hits == [k \in 1..Len(n.references_all) |->
                    IF k = 1 THEN crossref_top_hit(n.references_all[1]) ELSE EmptyMeta]
    IN  IF reply = "raise"
        THEN fail(m, "[NAA] step 2 Crossref failed", [NoNote EXCEPT !.stage = "step2"])
        ELSE [m EXCEPT !.crossref_hits = hits,
                       !.ref2meta = ref2meta_of(n.references_all, hits),
                       !.doi_count = doi_count_of(hits),
                       !.pc = "step3"]

\* step 2: _crossref_biblio for the i-th reference of the full list; after the last
\* one, ref2meta and doi_count
step2(n, reply) ==
    LET cite_str == n.references_all[n.i]
        blank == Strip(cite_str) = ""
        m == IF blank THEN n ELSE counted(n, "crossref")
    IN  IF ~blank /\ reply = "raise"
        THEN fail(m, "[NAA] step 2 Crossref failed", [NoNote EXCEPT !.stage = "step2"])
        ELSE LET hits == Append(n.crossref_hits,
                                IF blank THEN EmptyMeta ELSE crossref_top_hit(cite_str))
             IN  IF n.i < Len(n.references_all)
                 THEN [m EXCEPT !.crossref_hits = hits, !.i = @ + 1]
                 ELSE [m EXCEPT !.crossref_hits = hits,
                                !.ref2meta = ref2meta_of(n.references_all, hits),
                                !.doi_count = doi_count_of(hits),
                                !.pc = "step3"]

Step2Crossref ==
    /\ naa.pc = "step2"
    /\ \E reply \in CrossrefReplies : naa' = step2(naa, reply)
    /\ UNCHANGED <<dedupVars, fetch, storageVars, amieVars>>

\* [s for s in (obj.get(key) or []) if isinstance(s, str) and s.strip()]
top2_of(obj) == SelectSeq(obj.items, nonblank_str)

\* the cardinality check, letting more than two items pass
not_two_items_lenient(top2) == Len(top2) < 2

\* len(top2) != 2
not_two_items(top2) == Len(top2) # 2

\* a ranking call raised, and is made again
ranking_call_failed_retry(n, stage, msg) == [n EXCEPT !.pc = stage]

\* except Exception as e: return _fail(...) of a ranking call
ranking_call_failed(n, stage, msg) == fail(n, msg, [NoNote EXCEPT !.stage = stage])

\* step 3: the baseline ranking call and its cardinality check
step3(n, reply) ==
    LET m == counted(n, "baseline_llm")
    IN  IF reply.kind = "raise"
        THEN ranking_call_failed(m, "step3", "[NAA] step 3 baseline ranking LLM failed")
        ELSE IF reply.kind = "nonobject"
        THEN raise([m EXCEPT !.baseline_obj = reply], "AttributeError: no attribute 'get'")
        ELSE IF not_two_items(top2_of(reply))
        THEN fail([m EXCEPT !.baseline_obj = reply, !.baseline_top2 = top2_of(reply)],
                  "[NAA] step 3 did not return exactly two baseline items",
                  [NoNote EXCEPT !.stage = "step3", !.rank = reply])
        ELSE [m EXCEPT !.baseline_obj = reply, !.baseline_top2 = top2_of(reply),
                       !.pc = "step4"]

Step3Baseline ==
    /\ naa.pc = "step3"
    /\ \E reply \in RankReplies : naa' = step3(naa, reply)
    /\ UNCHANGED <<dedupVars, fetch, storageVars, amieVars>>

\* meta = ref2meta.get(ref_str.strip()) or {}
meta_of(n, ref_str) ==
    IF Strip(ref_str) \in DOMAIN n.ref2meta THEN n.ref2meta[Strip(ref_str)] ELSE EmptyMeta

\* selected_refs = baseline_top2 + innovation_top2
selected_refs(n) == n.baseline_top2 \o n.innovation_top2

\* step 5 at its i-th selected reference: if doi, _openalex_by_dois comes first
\* step 5 choosing its lookup by the number of identifiers step 2 counted
step5_begin_by_doi_count(n) ==
    [n EXCEPT !.pc = IF n.doi_count > 0 THEN "step5_by_dois" ELSE "step5_search_title"]

step5_begin(n) ==
    [n EXCEPT !.pc = IF meta_of(n, selected_refs(n)[n.i]).doi # ""
                     THEN "step5_by_dois" ELSE "step5_search_title"]

\* step 4: the innovation ranking call and its cardinality check
step4(n, reply) ==
    LET m == counted(n, "innovation_llm")
    IN  IF reply.kind = "raise"
        THEN ranking_call_failed(m, "step4", "[NAA] step 4 innovation ranking LLM failed")
        ELSE IF reply.kind = "nonobject"
        THEN raise([m EXCEPT !.innovation_obj = reply], "AttributeError: no attribute 'get'")
        ELSE IF not_two_items(top2_of(reply))
        THEN fail([m EXCEPT !.innovation_obj = reply, !.innovation_top2 = top2_of(reply)],
                  "[NAA] step 4 did not return exactly two innovation items",
                  [NoNote EXCEPT !.stage = "step4", !.rank = reply])
        ELSE step5_begin([m EXCEPT !.innovation_obj = reply,
                                   !.innovation_top2 = top2_of(reply), !.i = 1])

Step4Innovation ==
    /\ naa.pc = "step4"
    /\ \E reply \in RankReplies : naa' = step4(naa, reply)
    /\ UNCHANGED <<dedupVars, fetch, storageVars, amieVars>>


--------------------------------------------------------------------------
(* naa_node: steps 5 to 7 and the success assembly.                        *)

CurrentYear == 2026

\* int(ystr); -1: int() raises
year_int(ystr) ==
    CASE ystr = "2010" -> 2010
      [] ystr = "2019" -> 2019
      [] ystr = "2020" -> 2020
      [] ystr = "2021" -> 2021
      [] OTHER         -> -1

\* _is_recent: the year parses and is within the last 10 years
is_recent(ystr) == year_int(ystr) # -1 /\ year_int(ystr) >= CurrentYear - 10

\* lower.endswith(".pdf")
ends_with_pdf(url) ==
    url \in { "https://pub.example/jones.pdf", "https://pub.example/final.pdf",
              "https://arxiv.org/pdf/2101.00001.pdf", "https://arxiv.org/pdf/9999.00001.pdf" }

\* _ensure_pdf_url without the arXiv rule
ensure_pdf_url_no_arxiv(url) == Strip(url)

\* _ensure_pdf_url: *.pdf as is, arXiv /abs/{id} -> /pdf/{id}.pdf, otherwise the original
ensure_pdf_url(url) ==
    LET u == Strip(url)
    IN  CASE u = ""                                  -> ""
          [] ends_with_pdf(u)                        -> u
          [] u = "https://arxiv.org/abs/2101.00001"  -> "https://arxiv.org/pdf/2101.00001.pdf"
          [] u = "https://arxiv.org/abs/9999.00001"  -> "https://arxiv.org/pdf/9999.00001.pdf"
          [] OTHER                                   -> u

\* what _http_head_or_get_for_pdf can answer: ("", None) when unreachable or an
\* error status, else the final URL and its content type
NegotiationReplies ==
    { [final_url |-> "", ctype |-> ""],
      [final_url |-> "https://pub.example/final.pdf", ctype |-> "text/html"],
      [final_url |-> "https://pub.example/final", ctype |-> "application/pdf"],
      [final_url |-> "https://pub.example/landing", ctype |-> "text/html"] }

\* content negotiation that takes every reachable final url
resolve_pdf_via_content_negotiation_any(doi_or_url, reply) ==
    IF doi_or_url = "" THEN "" ELSE reply.final_url

\* _resolve_pdf_via_content_negotiation, given the answer of its request
resolve_pdf_via_content_negotiation(doi_or_url, reply) ==
    IF doi_or_url = "" THEN ""
    ELSE IF reply.final_url = "" THEN ""
    ELSE IF reply.ctype = "application/pdf" \/ ends_with_pdf(reply.final_url)
         THEN reply.final_url
         ELSE ""

\* the pdf url _candidate_from_record arrives at: the known pdf url, the landing
\* url through _ensure_pdf_url, negotiation on the doi, negotiation on the landing url
candidate_pdf(item, reply1, reply2) ==
    LET w == item.openalex_work
        cr == item.crossref
        known == StrOr(Strip(w.pdf_url), Strip(cr.pdf_url))
        landing == StrOr(Strip(w.url), Strip(cr.url))
        pdf2 == IF known # "" THEN known ELSE ensure_pdf_url(landing)
        doi == Strip(StrOr(cr.doi, w.doi))
        pdf3 == IF pdf2 # "" THEN pdf2 ELSE resolve_pdf_via_content_negotiation(doi, reply1)
    IN  IF pdf3 # "" THEN pdf3 ELSE resolve_pdf_via_content_negotiation(landing, reply2)

\* whether _candidate_from_record issues a content-negotiation request
negotiates(item) ==
    LET w == item.openalex_work
        cr == item.crossref
    IN  /\ StrOr(Strip(w.pdf_url), Strip(cr.pdf_url)) = ""
        /\ ensure_pdf_url(StrOr(Strip(w.url), Strip(cr.url))) = ""
        /\ Strip(StrOr(cr.doi, w.doi)) # ""

\* the answers to a negotiation on a target: none but ("", None) when the target
\* is empty and no request is made
negotiation_replies(doi_or_url) ==
    IF doi_or_url = "" THEN { [final_url |-> "", ctype |-> ""] } ELSE NegotiationReplies

\* the target of the first negotiation of _candidate_from_record, the doi; "": none
negotiation_doi(item) ==
    LET w == item.openalex_work
        cr == item.crossref
    IN  IF /\ StrOr(Strip(w.pdf_url), Strip(cr.pdf_url)) = ""
           /\ ensure_pdf_url(StrOr(Strip(w.url), Strip(cr.url))) = ""
        THEN Strip(StrOr(cr.doi, w.doi)) ELSE ""

\* the target of its second negotiation, the landing url; "": none
negotiation_landing(item, reply1) ==
    LET w == item.openalex_work
        cr == item.crossref
    IN  IF /\ StrOr(Strip(w.pdf_url), Strip(cr.pdf_url)) = ""
           /\ ensure_pdf_url(StrOr(Strip(w.url), Strip(cr.url))) = ""
           /\ resolve_pdf_via_content_negotiation(Strip(StrOr(cr.doi, w.doi)), reply1) = ""
        THEN StrOr(Strip(w.url), Strip(cr.url)) ELSE ""

\* _candidate_from_record: <<candidate>>, or <<>> for None
candidate_from_record(item, reply1, reply2) ==
    LET w == item.openalex_work
        cr == item.crossref
        title == StrOr(Strip(w.title), Strip(cr.title))
        pdf == candidate_pdf(item, reply1, reply2)
    IN  IF pdf # ""
        THEN << [title |-> StrOr(title, "network_pdf"), pdf_url |-> pdf, year |-> Strip(w.year)] >>
        ELSE <<>>

\* the success assembly and return
finish(n) ==
    [n EXCEPT !.pc = "done",
              !.result =
                  [kind |-> "return", status |-> "FINISHED",
                   message |-> "NAA: refs resolved (deduped), cited-by via cites-filter, and Step 7 comparison completed (REMOTE or GCS mode)",
                   note |-> NoNote,
                   reference_urls |-> n.resolved_results,
                   temp_step7 |-> n.step7_result,
                   counts |-> [refs_total |-> Len(n.references_all),
                               dois_resolved |-> n.doi_count,
                               baseline_top2 |-> Len(n.baseline_top2),
                               innovation_top2 |-> Len(n.innovation_top2),
                               openalex_resolved_ok |-> n.resolved_ok,
                               unique_after_dedup |-> Len(n.resolved_results)]]]

\* with a candidate chosen: REMOTE mode compares at once, GCS mode downloads first
step7_mode(n) ==
    [n EXCEPT !.pc = IF n.config.naa_step7_remote THEN "step7_remote_compare"
                     ELSE "step7_download"]

\* step 7, the choice of the candidate: the override of the config, or harvesting
step7_begin(n) ==
    IF n.config.naa_step7_override_pdf # NoOverride
    THEN step7_mode([n EXCEPT !.chosen =
             [title |-> StrOr(Strip(n.config.naa_step7_override_pdf.title), "network_pdf"),
              pdf_url |-> ensure_pdf_url(Strip(n.config.naa_step7_override_pdf.pdf_url)),
              year |-> ""]])
    ELSE [n EXCEPT !.pc = "step7_harvest", !.i = 1]

\* step 6 at its i-th deduplicated reference, or step 7 after the last one
step6_next(n) ==
    IF n.i < Len(n.resolved_results) THEN [n EXCEPT !.i = @ + 1] ELSE step7_begin(n)

\* sum(1 for it in resolved_results if openalex_id or url)
resolved_ok_of(resolved_results) ==
    Cardinality({k \in 1..Len(resolved_results) :
                    \/ resolved_results[k].openalex_work.openalex_id # ""
                    \/ resolved_results[k].openalex_work.url # ""})

\* resolved_results.append({...}) for the i-th selected reference; after the fourth,
\* resolved_ok and the dedup
append_resolved(n, work) ==
    LET ref_str == selected_refs(n)[n.i]
        meta == meta_of(n, ref_str)
        item == [label            |-> IF n.i <= Len(n.baseline_top2) THEN "baseline"
                                      ELSE "innovation",
                 reference_string |-> ref_str,
                 crossref         |-> [title |-> meta.title, doi |-> meta.doi,
                                       url |-> meta.url, pdf_url |-> meta.pdf_url],
                 openalex_work    |-> work,
                 cited_by         |-> 0]
        all == Append(n.resolved_results, item)
    IN  IF n.i < Len(selected_refs(n))
        THEN step5_begin([n EXCEPT !.resolved_results = all, !.i = @ + 1])
        ELSE [n EXCEPT !.resolved_results = dedup_resolved(all),
                       !.resolved_ok = resolved_ok_of(all),
                       !.pc = "step6", !.i = 1]

\* works = _openalex_by_dois([doi], polite_email) for the i-th selected reference
step5_by_dois(n, reply) ==
    LET m == called(n, "by_dois")
        doi == meta_of(n, selected_refs(n)[n.i]).doi
        work == IF reply = "ok" THEN openalex_work_of_doi(doi) ELSE NoWork
    IN  IF reply = "raise" THEN append_resolved(m, NoWork)
        ELSE IF work # NoWork THEN append_resolved(m, work)
        ELSE [m EXCEPT !.pc = "step5_search_title"]

Step5ByDois ==
    /\ naa.pc = "step5_by_dois"
    /\ \E reply \in OpenAlexReplies : naa' = step5_by_dois(naa, reply)
    /\ UNCHANGED <<dedupVars, fetch, storageVars, amieVars>>

\* work = _openalex_search_title(title, polite_email), title = meta title or ref_str
step5_search_title(n, reply) ==
    LET m == called(n, "search_title")
        ref_str == selected_refs(n)[n.i]
        title == StrOr(meta_of(n, ref_str).title, ref_str)
    IN  append_resolved(m, IF reply = "ok" THEN openalex_work_of_title(title) ELSE NoWork)

Step5SearchTitle ==
    /\ naa.pc = "step5_search_title"
    /\ \E reply \in OpenAlexReplies : naa' = step5_search_title(naa, reply)
    /\ UNCHANGED <<dedupVars, fetch, storageVars, amieVars>>

\* the call of _openalex_fetch_cited_by step 6 makes for an item (slug not empty)
step6_fetch(item, script) ==
    LET w == item.openalex_work
    IN  run_fetch(fetch_start(normalize_openalex_id(w.openalex_id), w.cited_by_api_url,
                              w.cited_by_count), script)

\* step 6 keeping the citing works of the pages fetched before an exception
step6_keeps_partial(n, script) ==
    LET item == n.resolved_results[n.i]
        slug == normalize_openalex_id(item.openalex_work.openalex_id)
        f == step6_fetch(item, script)
    IN  IF slug # ""
        THEN step6_next([called(n, "cited_by") EXCEPT !.resolved_results[n.i].cited_by = f.out])
        ELSE step6_next([n EXCEPT !.resolved_results[n.i].cited_by = 0])

\* step 6 calling the expander without looking at the slug
step6_any_slug(n, script) ==
    LET f == step6_fetch(n.resolved_results[n.i], script)
    IN  step6_next([called(n, "cited_by") EXCEPT
            !.resolved_results[n.i].cited_by = IF f.pc = "raise" THEN 0 ELSE f.out])

\* step 6 for the i-th deduplicated reference: item["cited_by"] = cb, [] on an exception
step6(n, script) ==
    LET item == n.resolved_results[n.i]
        slug == normalize_openalex_id(item.openalex_work.openalex_id)
        f == step6_fetch(item, script)
    IN  IF slug # ""
        THEN step6_next([called(n, "cited_by") EXCEPT
                 !.resolved_results[n.i].cited_by = IF f.pc = "raise" THEN 0 ELSE f.out])
        ELSE step6_next([n EXCEPT !.resolved_results[n.i].cited_by = 0])

Step6CitedBy ==
    /\ naa.pc = "step6"
    /\ \E script \in PageScripts :
          /\ naa' = step6(naa, script)
          /\ fetch' = IF normalize_openalex_id(
                             naa.resolved_results[naa.i].openalex_work.openalex_id) # ""
                      THEN step6_fetch(naa.resolved_results[naa.i], script)
                      ELSE fetch
    /\ UNCHANGED <<dedupVars, storageVars, amieVars>>

\* the harvest writing the url it found back into the reference
step7_harvest_annotates(n, reply1, reply2) ==
    LET item == n.resolved_results[n.i]
        cand == candidate_from_record(item, reply1, reply2)
        m == IF negotiates(item) \/ negotiation_landing(item, reply1) # ""
             THEN counted(n, "negotiation") ELSE n
        out == IF cand # <<>>
               THEN Append(n.candidates_any,
                           [cand[1] EXCEPT !.pdf_url = ensure_pdf_url(cand[1].pdf_url)])
               ELSE n.candidates_any
    IN  [m EXCEPT !.candidates_any = out,
                  !.resolved_results[n.i].openalex_work.pdf_url =
                      IF cand # <<>> THEN ensure_pdf_url(cand[1].pdf_url) ELSE @,
                  !.i = IF n.i < Len(n.resolved_results) THEN @ + 1 ELSE @,
                  !.pc = IF n.i < Len(n.resolved_results) THEN "step7_harvest"
                         ELSE "step7_choose"]

\* _harvest_pdf_candidates, for the i-th deduplicated reference
step7_harvest(n, reply1, reply2) ==
    LET item == n.resolved_results[n.i]
        cand == candidate_from_record(item, reply1, reply2)
        m == IF negotiates(item) \/ negotiation_landing(item, reply1) # ""
             THEN counted(n, "negotiation") ELSE n
        out == IF cand # <<>>
               THEN Append(n.candidates_any,
                           [cand[1] EXCEPT !.pdf_url = ensure_pdf_url(cand[1].pdf_url)])
               ELSE n.candidates_any
    IN  [m EXCEPT !.candidates_any = out,
                  !.i = IF n.i < Len(n.resolved_results) THEN @ + 1 ELSE @,
                  !.pc = IF n.i < Len(n.resolved_results) THEN "step7_harvest"
                         ELSE "step7_choose"]

Step7Harvest ==
    /\ naa.pc = "step7_harvest"
    /\ \E reply1 \in negotiation_replies(negotiation_doi(naa.resolved_results[naa.i])) :
          \E reply2 \in negotiation_replies(
                            negotiation_landing(naa.resolved_results[naa.i], reply1)) :
              naa' = step7_harvest(naa, reply1, reply2)
    /\ UNCHANGED <<dedupVars, fetch, storageVars, amieVars>>

\* the pool without the preference for recent years
candidate_pool_any(candidates_any) ==
    {candidates_any[k] : k \in 1..Len(candidates_any)}

\* pool = candidates_recent if candidates_recent else candidates_any
candidate_pool(candidates_any) ==
    LET recent == {k \in 1..Len(candidates_any) : is_recent(candidates_any[k].year)}
    IN  IF recent # {} THEN {candidates_any[k] : k \in recent}
        ELSE {candidates_any[k] : k \in 1..Len(candidates_any)}

\* chosen = random.choice(pool), or None and no comparison
Step7Choose ==
    /\ naa.pc = "step7_choose"
    /\ IF candidate_pool(naa.candidates_any) = {}
       THEN naa' = finish(naa)
       ELSE \E c \in candidate_pool(naa.candidates_any) :
                naa' = step7_mode([naa EXCEPT !.chosen = c])
    /\ UNCHANGED <<dedupVars, fetch, storageVars, amieVars>>

\* what the comparison generation call can do: raise (also on text that is not
\* JSON), return a JSON value that is not an object, return the object
CompareReplies ==
    { [kind |-> "raise", network_title |-> "", same |-> <<>>, new |-> <<>>],
      [kind |-> "nonobject", network_title |-> "", same |-> <<>>, new |-> <<>>],
      [kind |-> "object", network_title |-> "a title as the model read it",
       same |-> <<"shared material X">>, new |-> <<"new mechanism Y">>] }

\* REMOTE mode: the comparison, its network_title left as the model returned it
step7_remote_compare_keeps_title(n, reply) ==
    LET m == counted(n, "compare_llm")
    IN  finish([m EXCEPT !.step7_result =
            IF reply.kind = "object"
            THEN [status |-> "", reason |-> "", network_title |-> reply.network_title,
                  network_pdf_url |-> n.chosen.pdf_url, network_pdf_gcs |-> "",
                  same |-> reply.same, new |-> reply.new]
            ELSE [Step7Unclear EXCEPT !.reason = "llm_error_remote",
                                      !.network_pdf_url = n.chosen.pdf_url]])

\* REMOTE mode: the comparison on the remote URL
step7_remote_compare(n, reply) ==
    LET m == counted(n, "compare_llm")
    IN  finish([m EXCEPT !.step7_result =
            IF reply.kind = "object"
            THEN [status |-> "", reason |-> "", network_title |-> n.chosen.title,
                  network_pdf_url |-> n.chosen.pdf_url, network_pdf_gcs |-> "",
                  same |-> reply.same, new |-> reply.new]
            ELSE [Step7Unclear EXCEPT !.reason = "llm_error_remote",
                                      !.network_pdf_url = n.chosen.pdf_url]])

Step7RemoteCompare ==
    /\ naa.pc = "step7_remote_compare"
    /\ \E reply \in CompareReplies : naa' = step7_remote_compare(naa, reply)
    /\ UNCHANGED <<dedupVars, fetch, storageVars, amieVars>>

\* what the download can do: raise (not 2xx), deliver a payload that is not a PDF
\* (_download_pdf_validated raises), deliver a PDF, deliver an empty body declared a PDF
DownloadReplies == {"raise", "not_pdf", "pdf", "empty_pdf"}

\* the download without the validation of the payload
step7_download_unvalidated(n, reply) ==
    LET m == counted(n, "download")
    IN  IF reply = "raise"
        THEN finish([m EXCEPT !.step7_result = [Step7Unclear EXCEPT !.reason = "download_error"],
                              !.pdf_bytes = ""])
        ELSE IF reply = "empty_pdf"
        THEN finish([m EXCEPT !.pdf_bytes = ""])
        ELSE [m EXCEPT !.pdf_bytes = IF reply = "not_pdf" THEN "<html>" ELSE "%PDF-1.7 ...",
                       !.pc = "step7_upload"]

\* GCS mode: _download_pdf_validated(net_pdf_url)
step7_download(n, reply) ==
    LET m == counted(n, "download")
    IN  IF reply \in {"raise", "not_pdf"}
        THEN finish([m EXCEPT !.step7_result = [Step7Unclear EXCEPT !.reason = "download_error"],
                              !.pdf_bytes = ""])
        ELSE IF reply = "empty_pdf"
        THEN finish([m EXCEPT !.pdf_bytes = ""])
        ELSE [m EXCEPT !.pdf_bytes = "%PDF-1.7 ...", !.pc = "step7_upload"]

Step7Download ==
    /\ naa.pc = "step7_download"
    /\ \E reply \in DownloadReplies : naa' = step7_download(naa, reply)
    /\ UNCHANGED <<dedupVars, fetch, storageVars, amieVars>>

\* the seconds _now_iso can read while the object path is built
ClockSeconds == {"2026-11-02-06-00-00", "2026-11-02-06-00-01"}

\* gs://{GCS_BUCKET}/{GCS_PREFIX}/netpdf_{_now_iso()}_{sha1(net_pdf_url)[:12]}.pdf:
\* the second and the url are all that varies; the digest stands as the url
gcs_object_uri(now, net_pdf_url) == <<"gs://", "netpdf", now, net_pdf_url>>

\* GCS mode: the upload to netpdf_{_now_iso()}_{sha1(url)[:12]}.pdf
step7_upload(n, reply, now) ==
    LET m == counted(n, "upload")
    IN  IF reply = "raise"
        THEN finish([m EXCEPT !.step7_result = [Step7Unclear EXCEPT !.reason = "gcs_upload_error"],
                              !.network_gcs_uri = <<>>])
        ELSE [m EXCEPT !.network_gcs_uri = gcs_object_uri(now, n.chosen.pdf_url),
                       !.pc = "step7_compare"]

Step7Upload ==
    /\ naa.pc = "step7_upload"
    /\ \E reply \in {"raise", "ok"}, now \in ClockSeconds : naa' = step7_upload(naa, reply, now)
    /\ UNCHANGED <<dedupVars, fetch, storageVars, amieVars>>

\* GCS mode: the comparison on the two GCS URIs
step7_compare(n, reply) ==
    LET m == counted(n, "compare_llm")
    IN  finish([m EXCEPT !.step7_result =
            IF reply.kind = "object"
            THEN [status |-> "", reason |-> "", network_title |-> n.chosen.title,
                  network_pdf_url |-> "", network_pdf_gcs |-> n.network_gcs_uri,
                  same |-> reply.same, new |-> reply.new]
            ELSE [Step7Unclear EXCEPT !.reason = "llm_error_gcs",
                                      !.network_pdf_gcs = n.network_gcs_uri]])

Step7Compare ==
    /\ naa.pc = "step7_compare"
    /\ \E reply \in CompareReplies : naa' = step7_compare(naa, reply)
    /\ UNCHANGED <<dedupVars, fetch, storageVars, amieVars>>

NaaNext ==
    \/ Precheck
    \/ Step1ExtractRefs
    \/ Step2Crossref
    \/ Step3Baseline
    \/ Step4Innovation
    \/ Step5ByDois
    \/ Step5SearchTitle
    \/ Step6CitedBy
    \/ Step7Harvest
    \/ Step7Choose
    \/ Step7RemoteCompare
    \/ Step7Download
    \/ Step7Upload
    \/ Step7Compare

Spec == NaaInit /\ [][NaaNext]_vars

--------------------------------------------------------------------------
(* Two invocations of naa_node in GCS mode on one bucket.                  *)

Invocations == {1, 2}

\* the services answer every call of steps 1 to 6 and of the harvest of step 7
served(n) ==
    CASE n.pc = "precheck"           -> precheck(n)
      [] n.pc = "step1"              -> step1(n, [kind |-> "array", items |-> <<S1, S2, S3, S4>>])
      [] n.pc = "step2"              -> step2(n, "ok")
      [] n.pc = "step3"              -> step3(n, [kind |-> "object", items |-> <<S1, S2>>])
      [] n.pc = "step4"              -> step4(n, [kind |-> "object", items |-> <<S3, S4>>])
      [] n.pc = "step5_by_dois"      -> step5_by_dois(n, "ok")
      [] n.pc = "step5_search_title" -> step5_search_title(n, "ok")
      [] n.pc = "step6"              -> step6(n, [n |-> 1, cursor_pages |-> 0, raise_at |-> 0])
      [] n.pc = "step7_harvest"      -> step7_harvest(n, [final_url |-> "", ctype |-> ""],
                                                      [final_url |-> "", ctype |-> ""])
      [] OTHER                       -> n

\* naa_node run up to the choice of its candidate
RECURSIVE run_to_choice(_)
run_to_choice(n) ==
    IF n.pc \in {"step7_choose", "step7_remote_compare", "step7_download", "done"}
    THEN n ELSE run_to_choice(served(n))

\* the invocations at the download of their candidate: with the override of the
\* config, or after random.choice(pool)
AtDownload ==
    LET state == [idca_status |-> "FINISHED", idca_doc_gcs_uri |-> "gs://amie/doc.pdf",
                  summary |-> "summary"]
        gcs(override) == [configurable |-> TRUE, genai_client |-> TRUE,
                          naa_step7_remote |-> FALSE, naa_step7_override_pdf |-> override]
        forced == run_to_choice(naa_start(state,
                      gcs([title |-> "", pdf_url |-> "https://arxiv.org/abs/9999.00001"])))
        free == run_to_choice(naa_start(state, gcs(NoOverride)))
    IN  {forced} \cup { step7_mode([free EXCEPT !.chosen = c]) :
                            c \in candidate_pool(free.candidates_any) }

StorageInit ==
    /\ DedupIdle
    /\ AmieIdle
    /\ fetch = FetchIdle
    /\ naa = NaaIdle
    /\ runs \in [Invocations -> AtDownload]
    /\ clock = "2026-11-02-06-00-00"
    /\ bucket = <<>>

\* the clock passes to the next second
StorageTick ==
    /\ clock = "2026-11-02-06-00-00"
    /\ clock' = "2026-11-02-06-00-01"
    /\ UNCHANGED <<amieVars, dedupVars, fetch, naa, runs, bucket>>

StorageDownload ==
    \E i \in Invocations :
        /\ runs[i].pc = "step7_download"
        /\ \E reply \in DownloadReplies : runs' = [runs EXCEPT ![i] = step7_download(@, reply)]
        /\ UNCHANGED <<amieVars, dedupVars, fetch, naa, clock, bucket>>

\* blob.upload_from_string(data) replaces what the object held
StorageUpload ==
    \E i \in Invocations :
        /\ runs[i].pc = "step7_upload"
        /\ \E reply \in {"raise", "ok"} :
              /\ runs' = [runs EXCEPT ![i] = step7_upload(@, reply, clock)]
              /\ bucket' = IF reply = "ok"
                           THEN [path \in DOMAIN bucket \cup
                                          {gcs_object_uri(clock, runs[i].chosen.pdf_url)} |->
                                    IF path = gcs_object_uri(clock, runs[i].chosen.pdf_url)
                                    THEN i ELSE bucket[path]]
                           ELSE bucket
        /\ UNCHANGED <<amieVars, dedupVars, fetch, naa, clock>>

StorageCompare ==
    \E i \in Invocations :
        /\ runs[i].pc = "step7_compare"
        /\ \E reply \in CompareReplies : runs' = [runs EXCEPT ![i] = step7_compare(@, reply)]
        /\ UNCHANGED <<amieVars, dedupVars, fetch, naa, clock, bucket>>

StorageNext == StorageTick \/ StorageDownload \/ StorageUpload \/ StorageCompare

SpecStorage == StorageInit /\ [][StorageNext]_vars

--------------------------------------------------------------------------
(* Claims on naa_node.                                                     *)

\* naa_node returned the failure of a ranking stage, whose call was the last one issued
after_ranking_failure(n, stage, call) ==
    /\ n.pc = "done"
    /\ n.result.kind = "return"
    /\ n.result.status = "FAILED"
    /\ n.result.note.stage = stage
    /\ n.last_call = call

\* the items of a ranking reply that are not, verbatim, members of the citation list
non_verbatim(n, obj) ==
    {k \in 1..Len(obj.items) :
        \A j \in 1..Len(n.references_all) : obj.items[k] # n.references_all[j]}

\* C1: one invocation of naa_node ends with exactly one outcome, a FINISHED
\* success bundle or a FAILED failure, and never lets an exception reach the
\* caller, whatever JSON shape the services return.
C1_OneOutcomeNeverRaises ==
    naa.pc = "done" =>
        /\ naa.result.kind = "return"
        /\ naa.result.status \in {"FINISHED", "FAILED"}

\* C6: when the baseline or the innovation ranking call returns an item that is
\* not verbatim a member of the citation list, the invocation ends in a failure
\* of that ranking stage and the ranking call is the last external call issued.
C6_NonVerbatimRankingFails ==
    /\ (naa.pc # "idle" /\ naa.baseline_obj.kind = "object"
            /\ non_verbatim(naa, naa.baseline_obj) # {})
          => after_ranking_failure(naa, "step3", "baseline_llm")
    /\ (naa.pc # "idle" /\ naa.innovation_obj.kind = "object"
            /\ non_verbatim(naa, naa.innovation_obj) # {})
          => after_ranking_failure(naa, "step4", "innovation_llm")

C8_InnovationExcludesBaseline ==
    (naa.pc # "idle" /\ Len(naa.baseline_top2) = 2 /\ Len(naa.innovation_top2) = 2)
        => \A i \in 1..2, j \in 1..2 : naa.innovation_top2[i] # naa.baseline_top2[j]

\* C9: the baseline ranking call is issued at most once, the innovation ranking
\* call at most once and only after the baseline call has returned, and the
\* comparison call at most once: no ranking or comparison call is repeated,
\* also not after it raised or returned a malformed result.
C9_GenerationCallsNotRepeated ==
    naa.pc # "idle" =>
        /\ naa.calls.baseline_llm <= 1
        /\ naa.calls.innovation_llm <= 1
        /\ naa.calls.compare_llm <= 1
        /\ naa.calls.innovation_llm = 1 =>
              (naa.calls.baseline_llm = 1 /\ naa.baseline_obj.kind = "object")
        /\ naa.calls.compare_llm = 1 =>
              (naa.calls.baseline_llm = 1 /\ naa.calls.innovation_llm = 1)
        /\ (naa.pc \in {"precheck", "step1", "step2", "step3"}) => naa.calls.baseline_llm = 0
        /\ (naa.pc = "step4") => naa.calls.innovation_llm = 0

\* all three generation calls were issued, and the comparison call failed
C9_Witness ==
    /\ naa.pc = "done"
    /\ naa.calls.baseline_llm = 1
    /\ naa.calls.innovation_llm = 1
    /\ naa.calls.compare_llm = 1
    /\ naa.step7_result.reason = "llm_error_gcs"
    /\ naa.result.status = "FINISHED"

\* C11: for each reference the expander issues at most MAX_CITEDBY_PAGES page
\* requests whatever the service returns; at the cap it returns what it has
\* accumulated, which becomes the reference's cited_by; the count starts anew for
\* every reference; and the invocation ends FINISHED.
C11_PageCapPerReference ==
    /\ []((naa.pc # "idle" /\ fetch.pc # "idle") =>
             /\ fetch.requests <= MAX_CITEDBY_PAGES
             /\ fetch.pages > MAX_CITEDBY_PAGES =>
                   (fetch.pc = "return" /\ fetch.requests = MAX_CITEDBY_PAGES)
             /\ naa.pc = "done" =>
                   (naa.result.kind = "return" /\ naa.result.status = "FINISHED"))
    /\ [][(naa.pc = "step6"
             /\ normalize_openalex_id(
                    naa.resolved_results[naa.i].openalex_work.openalex_id) # "")
          => /\ fetch'.requests <= MAX_CITEDBY_PAGES
             /\ fetch'.pages = fetch'.requests
                                  + (IF fetch'.requests = MAX_CITEDBY_PAGES
                                        /\ fetch'.js.next_cursor # "" THEN 1 ELSE 0)
             /\ naa'.resolved_results[naa.i].cited_by =
                    (IF fetch'.pc = "return" THEN fetch'.out ELSE 0)]_vars

\* two references of one invocation ran into the page cap, each after
\* MAX_CITEDBY_PAGES pages of one citing work, and the invocation ended FINISHED
C11_Witness ==
    /\ naa.pc = "done"
    /\ naa.result.status = "FINISHED"
    /\ fetch.pc = "return"
    /\ fetch.pages > MAX_CITEDBY_PAGES
    /\ \E k1, k2 \in 1..Len(naa.resolved_results) :
          /\ k1 < k2
          /\ naa.resolved_results[k1].cited_by = MAX_CITEDBY_PAGES
          /\ naa.resolved_results[k2].cited_by = MAX_CITEDBY_PAGES
          /\ naa.result.reference_urls[k1].cited_by = MAX_CITEDBY_PAGES

\* the open-access PDF URL and the landing URL _candidate_from_record reads
known_pdf_url(item) ==
    StrOr(Strip(item.openalex_work.pdf_url), Strip(item.crossref.pdf_url))

landing_url(item) ==
    StrOr(Strip(item.openalex_work.url), Strip(item.crossref.url))

\* C12: for a reference whose open-access PDF URL is empty and whose landing URL
\* is the arXiv abstract page /abs/2101.00001, harvesting appends the candidate
\* with the direct URL /pdf/2101.00001.pdf and issues no content-negotiation
\* request.
C12_PreprintTransformSkipsNegotiation ==
    [][(naa.pc = "step7_harvest"
          /\ known_pdf_url(naa.resolved_results[naa.i]) = ""
          /\ landing_url(naa.resolved_results[naa.i]) = "https://arxiv.org/abs/2101.00001")
       => /\ Len(naa'.candidates_any) = Len(naa.candidates_any) + 1
          /\ naa'.candidates_any[Len(naa'.candidates_any)].pdf_url
                 = "https://arxiv.org/pdf/2101.00001.pdf"
          /\ SubSeq(naa'.candidates_any, 1, Len(naa.candidates_any)) = naa.candidates_any
          /\ naa'.calls.negotiation = naa.calls.negotiation
          /\ naa'.last_call = naa.last_call]_vars

\* harvesting is over, it made no content-negotiation request, and the arXiv
\* reference gave its direct URL
C12_Witness ==
    /\ naa.pc = "step7_choose"
    /\ naa.calls.negotiation = 0
    /\ \E k \in 1..Len(naa.resolved_results) :
          /\ known_pdf_url(naa.resolved_results[k]) = ""
          /\ landing_url(naa.resolved_results[k]) = "https://arxiv.org/abs/2101.00001"
    /\ \E k \in 1..Len(naa.candidates_any) :
          naa.candidates_any[k].pdf_url = "https://arxiv.org/pdf/2101.00001.pdf"

\* the url is an arXiv abstract page ("arxiv.org/abs/" in lower)
is_arxiv_abs(url) ==
    url \in {"https://arxiv.org/abs/2101.00001", "https://arxiv.org/abs/9999.00001"}

\* C13: when a reference has no open-access PDF URL and its landing URL is not
\* empty, not an arXiv abstract page and not a *.pdf URL, harvesting goes on to
\* content negotiation, and the reference gives a candidate only through an
\* accepted negotiation: never the landing URL itself.
C13_PlainLandingGoesToNegotiation ==
    naa.pc = "step7_choose" =>
        \A k \in 1..Len(naa.resolved_results) :
            (/\ known_pdf_url(naa.resolved_results[k]) = ""
             /\ landing_url(naa.resolved_results[k]) # ""
             /\ ~is_arxiv_abs(landing_url(naa.resolved_results[k]))
             /\ ~ends_with_pdf(landing_url(naa.resolved_results[k])))
            => /\ naa.calls.negotiation > 0
               /\ \A c \in 1..Len(naa.candidates_any) :
                      naa.candidates_any[c].pdf_url # landing_url(naa.resolved_results[k])

\* C14: without an override, the chosen candidate is one of the harvested
\* candidates; if a harvested candidate has a year within the last 10 years the
\* chosen one has too; a candidate that is not recent, or has no year, is chosen
\* only when none is recent.
C14_ChosenFromApplicablePool ==
    (naa.pc # "idle" /\ naa.config.naa_step7_override_pdf = NoOverride
        /\ naa.chosen # NoCandidate)
    => /\ \E k \in 1..Len(naa.candidates_any) : naa.candidates_any[k] = naa.chosen
       /\ (\E k \in 1..Len(naa.candidates_any) :
               year_int(naa.candidates_any[k].year) >= CurrentYear - 10)
          => year_int(naa.chosen.year) >= CurrentYear - 10

\* of three candidates, the first recent and the second not, the third was chosen
C14_Witness ==
    /\ naa.pc # "idle"
    /\ naa.config.naa_step7_override_pdf = NoOverride
    /\ Len(naa.candidates_any) = 3
    /\ year_int(naa.candidates_any[1].year) >= CurrentYear - 10
    /\ year_int(naa.candidates_any[2].year) < CurrentYear - 10
    /\ naa.chosen = naa.candidates_any[3]
    /\ naa.chosen # naa.candidates_any[1]

\* C15: when no override is configured and harvesting yields no candidate for
\* any deduplicated reference, the invocation ends with a failure outcome.
C15_NoCandidatesFails ==
    (naa.pc = "done" /\ naa.config.naa_step7_override_pdf = NoOverride
        /\ naa.resolved_results # <<>> /\ naa.candidates_any = <<>>)
    => naa.result.status = "FAILED"

\* C16: when the download of the chosen candidate raises or its payload fails
\* the PDF validation, the invocation ends with runtime status FAILED.
C16_DownloadInvalidFails ==
    (naa.pc = "done" /\ naa.calls.download = 1
        /\ naa.step7_result.reason = "download_error")
    => naa.result.status = "FAILED"

\* C17: when the comparison generation call raises or returns what cannot be
\* used as the comparison object, the invocation ends with runtime status
\* FAILED, never FINISHED with a default in place of the comparison.
C17_CompareErrorFails ==
    (naa.pc = "done" /\ naa.calls.compare_llm = 1
        /\ naa.step7_result.reason \in {"llm_error_remote", "llm_error_gcs"})
    => naa.result.status = "FAILED"

\* C18: every failure outcome carries a tag of where it failed and a reason that
\* is not empty, the failures of the checks before step 1 included.
C18_FailureHasStageAndReason ==
    (naa.pc = "done" /\ naa.result.kind = "return" /\ naa.result.status = "FAILED")
    => /\ naa.result.note.stage # "" \/ naa.result.note.where # ""
       /\ naa.result.message # ""

\* C19: when the upstream status is not FINISHED, or the document handle is
\* empty, or the configuration or the generation client is missing, the
\* invocation returns a failure outcome and issues no external call at all.
C19_PreconditionFailureWithoutCalls ==
    (/\ naa.pc # "idle"
     /\ \/ naa.state.idca_status # "FINISHED"
        \/ naa.state.idca_doc_gcs_uri = ""
        \/ ~naa.config.configurable
        \/ ~naa.config.genai_client)
    => /\ naa.pc \in {"precheck", "done"}
       /\ naa.calls = NoCalls
       /\ naa.last_call = "none"
       /\ fetch = FetchIdle
       /\ naa.pc = "done" =>
             (naa.result.kind = "return" /\ naa.result.status = "FAILED")

\* the invocation failed for the missing generation client, all else being in place
C19_Witness ==
    /\ naa.pc = "done"
    /\ naa.state.idca_status = "FINISHED"
    /\ naa.state.idca_doc_gcs_uri # ""
    /\ naa.config.configurable
    /\ ~naa.config.genai_client
    /\ naa.result.status = "FAILED"
    /\ naa.calls = NoCalls

\* the scenario: four citations, the first two ranked baseline and the last two
\* innovation, all four resolved, no citing work for any of them, a usable URL
\* for the third only, and a comparison of one overlap and one novel point
scenario_four_citations(n) ==
    /\ n.pc = "done"
    /\ n.config.naa_step7_override_pdf = NoOverride
    /\ n.references_all = <<S5, S6, S3, S4>>
    /\ n.baseline_top2 = <<S5, S6>>
    /\ n.innovation_top2 = <<S3, S4>>
    /\ n.resolved_ok = 4
    /\ \A k \in 1..Len(n.resolved_results) :
          /\ n.resolved_results[k].openalex_work.openalex_id # ""
          /\ n.resolved_results[k].cited_by = 0
    /\ \A k \in 1..Len(n.resolved_results) :
          (n.resolved_results[k].reference_string # S3)
              => candidate_from_record(n.resolved_results[k],
                                       [final_url |-> "", ctype |-> ""],
                                       [final_url |-> "", ctype |-> ""]) = <<>>
    /\ Len(n.step7_result.same) = 1
    /\ Len(n.step7_result.new) = 1

\* C20: in that scenario the invocation ends FINISHED with four unique
\* references, and the comparison candidate is the work of the third citation,
\* "Lee 2021 Device", however the random choice falls.
C20_EndToEndScenario ==
    (naa.pc # "idle" /\ scenario_four_citations(naa))
    => /\ naa.result.kind = "return"
       /\ naa.result.status = "FINISHED"
       /\ naa.result.counts.unique_after_dedup = 4
       /\ Len(naa.result.reference_urls) = 4
       /\ naa.result.reference_urls[3].reference_string = S3
       /\ naa.chosen = [title |-> "Device", year |-> "2021",
                        pdf_url |-> "https://arxiv.org/pdf/2101.00001.pdf"]
       /\ naa.result.temp_step7.network_title = "Device"
       /\ naa.result.temp_step7.same = <<"shared material X">>
       /\ naa.result.temp_step7.new = <<"new mechanism Y">>

\* the scenario has run to its end in REMOTE mode
C20_Witness ==
    /\ naa.pc # "idle"
    /\ scenario_four_citations(naa)
    /\ naa.config.naa_step7_remote
    /\ naa.calls.compare_llm = 1
    /\ naa.result.status = "FINISHED"

\* the stage an external call belongs to, in the order of naa_node
call_stage(kind) ==
    CASE kind = "none"           -> 0
      [] kind = "refs_llm"       -> 1
      [] kind = "crossref"       -> 2
      [] kind = "baseline_llm"   -> 3
      [] kind = "innovation_llm" -> 4
      [] kind = "by_dois"        -> 5
      [] kind = "search_title"   -> 5
      [] kind = "cited_by"       -> 6
      [] kind = "negotiation"    -> 7
      [] kind = "download"       -> 8
      [] kind = "upload"         -> 9
      [] kind = "compare_llm"    -> 10

\* no two elements of the list have the same dedup key
keys_distinct(resolved_results) ==
    \A j, k \in 1..Len(resolved_results) :
        j # k => make_key(resolved_results[j]) # make_key(resolved_results[k])

\* C21: external calls occur in stage order. No call of an earlier stage follows
\* a call of a later one; every citation of the full list has had its Crossref
\* lookup before the first ranking call; both rankings have returned their two
\* picks before the first OpenAlex lookup; the four selected citations are
\* resolved and deduplicated before the first cited-by request; and harvesting,
\* download, upload and comparison come only after that.
C21_CallsInStageOrder ==
    /\ [][naa.pc # "idle" => call_stage(naa'.last_call) >= call_stage(naa.last_call)]_vars
    /\ [](naa.pc # "idle" =>
            /\ call_stage(naa.last_call) >= 3 =>
                  (/\ naa.calls.crossref = Len(naa.references_all)
                   /\ Len(naa.crossref_hits) = Len(naa.references_all))
            /\ call_stage(naa.last_call) >= 4 => Len(naa.baseline_top2) = 2
            /\ call_stage(naa.last_call) >= 5 =>
                  (/\ Len(naa.innovation_top2) = 2
                   /\ naa.calls.baseline_llm = 1 /\ naa.calls.innovation_llm = 1)
            /\ call_stage(naa.last_call) >= 6 =>
                  (/\ naa.pc \notin {"step5_by_dois", "step5_search_title"}
                   /\ keys_distinct(naa.resolved_results))
            /\ (naa.calls.negotiation + naa.calls.download + naa.calls.upload
                    + naa.calls.compare_llm > 0) =>
                  (/\ naa.pc \notin {"step5_by_dois", "step5_search_title", "step6"}
                   /\ keys_distinct(naa.resolved_results)))

\* a run that issued calls of every stage, the negotiation and the GCS comparison included
C21_Witness ==
    /\ naa.pc = "done"
    /\ naa.last_call = "compare_llm"
    /\ naa.calls.crossref = 2
    /\ naa.calls.negotiation = 1
    /\ naa.calls.download = 1
    /\ naa.calls.upload = 1
    /\ fetch.pc # "idle"
    /\ Len(naa.resolved_results) = 2

\* C22: the Crossref lookup is issued exactly once for each citation of the full
\* list, selected later or not: one lookup per hit recorded, and all of them done
\* once step 2 is over. A lookup without a hit gives the all-empty record and the
\* invocation goes on to the ranking.
C22_OneLookupPerCitation ==
    naa.pc # "idle" =>
        /\ naa.calls.crossref <= Len(naa.references_all)
        /\ naa.calls.crossref \in {Len(naa.crossref_hits), Len(naa.crossref_hits) + 1}
        /\ naa.calls.crossref = Len(naa.crossref_hits) + 1 =>
              (naa.pc = "done" /\ naa.result.note.stage = "step2")
        /\ \A k \in 1..Len(naa.crossref_hits) :
              /\ naa.crossref_hits[k] = crossref_top_hit(naa.references_all[k])
              /\ naa.references_all[k] \in {S4, S5, S6} => naa.crossref_hits[k] = EmptyMeta
        /\ (naa.pc = "step3" \/ naa.calls.baseline_llm > 0) =>
              (/\ naa.calls.crossref = Len(naa.references_all)
               /\ Len(naa.crossref_hits) = Len(naa.references_all))

\* four citations were looked up, three of them without a hit, and the baseline
\* ranking picked two that were looked up as well as two others
C22_Witness ==
    /\ naa.pc = "step4"
    /\ naa.references_all = <<S5, S6, S3, S4>>
    /\ naa.calls.crossref = 4
    /\ naa.crossref_hits[1] = EmptyMeta
    /\ naa.crossref_hits[2] = EmptyMeta
    /\ naa.crossref_hits[3] # EmptyMeta
    /\ naa.crossref_hits[4] = EmptyMeta
    /\ naa.baseline_top2 = <<S5, S6>>

\* C23: two uploads made by different invocations never write the same object
\* path, also when both start within one second with the same candidate url: the
\* object an invocation wrote still holds that invocation's bytes.
C23_PathsNeverCollide ==
    \A i \in DOMAIN runs : \A j \in DOMAIN runs :
        (i # j /\ runs[i].network_gcs_uri # <<>> /\ runs[j].network_gcs_uri # <<>>) =>
            /\ runs[i].network_gcs_uri # runs[j].network_gcs_uri
            /\ bucket[runs[i].network_gcs_uri] = i

\* the identifier of the cached record of the selected citation step 5 is at
step5_doi(n) == meta_of(n, selected_refs(n)[n.i]).doi

\* C24: for each selected citation the identifier lookup is issued iff its cached
\* record carries an identifier; the title search is issued iff there was no
\* identifier or the lookup yielded no record; a record the lookup yields is the
\* one used, without a title search.
C24_LookupThenTitleSearch ==
    /\ [](naa.pc = "step5_by_dois" => step5_doi(naa) # "")
    /\ [](naa.pc = "step5_search_title" =>
              (step5_doi(naa) = "" \/ naa.last_call = "by_dois"))
    /\ [][naa.pc = "step5_by_dois" =>
              \/ naa'.pc = "step5_search_title" /\ naa'.last_call = "by_dois"
              \/ /\ openalex_work_of_doi(step5_doi(naa)) # NoWork
                 /\ naa' = append_resolved(called(naa, "by_dois"),
                                           openalex_work_of_doi(step5_doi(naa)))]_vars

\* the comparison call was issued after a download that passed the validation and
\* an upload that succeeded, on the GCS URIs of the invention and of the candidate
compared_after_stored(n) ==
    /\ n.calls.download = 1
    /\ n.calls.upload = 1
    /\ n.pdf_bytes = "%PDF-1.7 ..."
    /\ n.network_gcs_uri # <<>>
    /\ n.state.idca_doc_gcs_uri # ""
    /\ n.pc = "done" => n.result.temp_step7.network_pdf_gcs = n.network_gcs_uri

\* C25 as stated: in every configuration the comparison call is issued at most
\* once, and only after the candidate was downloaded, validated and uploaded.
C25_CompareAfterStored ==
    naa.pc # "idle" =>
        /\ naa.calls.compare_llm <= 1
        /\ naa.calls.upload > 0 => naa.pdf_bytes = "%PDF-1.7 ..."
        /\ (naa.calls.compare_llm > 0 \/ naa.pc = "step7_compare") => compared_after_stored(naa)

\* C25, amended: the comparison call is issued at most once; an upload is issued
\* only for bytes that passed the validation; in GCS mode the comparison comes
\* only after download, validation and upload of the candidate and is given the
\* two GCS URIs; in REMOTE mode nothing is downloaded or uploaded and the
\* comparison is given the candidate's url.
C25_CompareAfterStoredInGcsMode ==
    naa.pc # "idle" =>
        /\ naa.calls.compare_llm <= 1
        /\ naa.calls.upload > 0 =>
              (~naa.config.naa_step7_remote /\ naa.calls.download = 1
                  /\ naa.pdf_bytes = "%PDF-1.7 ...")
        /\ ((naa.calls.compare_llm > 0 \/ naa.pc = "step7_compare")
                /\ ~naa.config.naa_step7_remote) => compared_after_stored(naa)
        /\ naa.config.naa_step7_remote =>
              /\ naa.calls.download = 0 /\ naa.calls.upload = 0
              /\ naa.network_gcs_uri = <<>>
              /\ (naa.calls.compare_llm > 0 /\ naa.pc = "done") =>
                    /\ naa.result.temp_step7.network_pdf_url = naa.chosen.pdf_url
                    /\ naa.result.temp_step7.network_pdf_gcs = ""

\* GCS mode: the comparison returned its points after one download and one upload
C25_Witness ==
    /\ naa.pc = "done"
    /\ ~naa.config.naa_step7_remote
    /\ naa.calls.compare_llm = 1
    /\ compared_after_stored(naa)
    /\ naa.result.temp_step7.status = ""
    /\ naa.result.temp_step7.same # <<>>

\* C26 as stated: the stop rule on the expected total applies to a total of 0 too:
\* with cited_by_count 0 the expander issues exactly one page request, next
\* cursor or not.
C26_OneRequestForZeroTotal ==
    (fetch.pc # "idle" /\ fetch.expected_total = 0) =>
        /\ fetch.requests <= 1
        /\ fetch.requests = 1 => fetch.pc \in {"return", "raise"}

\* C26, amended: the stop rule applies to a positive expected total only. After a
\* page that did not raise the expander returns if the total is positive and
\* reached, else returns if there is no next cursor, else goes on to the next
\* page; a total of 0 is treated like an unknown one.
C26_StopRuleForPositiveTotalOnly ==
    [][(fetch.pc = "get" /\ fetch'.pc # "raise") =>
          /\ fetch'.requests = fetch.requests + 1
          /\ fetch'.pc = IF fetch.expected_total > 0 /\ fetch'.out >= fetch.expected_total
                         THEN "return"
                         ELSE IF fetch'.js.next_cursor = "" THEN "return" ELSE "sleep"]_vars

\* the expected total is 0 and a second page was requested after an empty first
\* page that carried a next cursor
C26_Witness ==
    /\ fetch.pc = "return"
    /\ fetch.expected_total = 0
    /\ fetch.requests = 2
    /\ fetch.sleeps = 1
    /\ fetch.out = 0

\* the slug step 6 computes for the i-th deduplicated reference
step6_slug(n) == normalize_openalex_id(n.resolved_results[n.i].openalex_work.openalex_id)

\* C27: for a deduplicated reference without an OpenAlex id step 6 issues no page
\* request; the reference stays in the list with an empty cited_by, the other
\* references are untouched, and step 6 goes on with the next one.
C27_NoRequestWithoutCanonicalId ==
    [][(naa.pc = "step6" /\ step6_slug(naa) = "") =>
          /\ fetch' = fetch
          /\ naa'.last_call = naa.last_call
          /\ naa'.calls = naa.calls
          /\ naa'.resolved_results =
                 [naa.resolved_results EXCEPT ![naa.i].cited_by = 0]
          /\ IF naa.i < Len(naa.resolved_results)
             THEN naa'.pc = "step6" /\ naa'.i = naa.i + 1
             ELSE naa'.pc \in {"step7_harvest", "step7_download", "step7_remote_compare"}]_vars

\* of two deduplicated references the first has no OpenAlex work and an empty
\* cited_by, the second got its citing works
C27_Witness ==
    /\ naa.pc = "step7_harvest"
    /\ Len(naa.resolved_results) = 2
    /\ naa.resolved_results[1].openalex_work = NoWork
    /\ naa.resolved_results[1].cited_by = 0
    /\ naa.resolved_results[2].openalex_work.openalex_id # ""
    /\ naa.resolved_results[2].cited_by > 0

\* the candidates the harvest of the i-th reference added in a step
harvested(n, m) == SubSeq(m.candidates_any, Len(n.candidates_any) + 1, Len(m.candidates_any))

\* C28: content negotiation takes a url only when the request was reachable and
\* the final response declares a PDF media type or the final url ends in .pdf; an
\* unreachable target, an error status or another media type gives no url, and
\* the harvest goes on without an exception.
C28_NegotiationAcceptsPdfOnly ==
    [][(naa.pc = "step7_harvest" /\ negotiates(naa.resolved_results[naa.i])) =>
          /\ naa'.pc \in {"step7_harvest", "step7_choose"}
          /\ naa'.result = NoResult
          /\ naa'.calls.negotiation = naa.calls.negotiation + 1
          /\ \/ harvested(naa, naa') = <<>>
             \/ /\ Len(harvested(naa, naa')) = 1
                /\ \E reply \in NegotiationReplies :
                      /\ reply.final_url # ""
                      /\ reply.ctype = "application/pdf" \/ ends_with_pdf(reply.final_url)
                      /\ harvested(naa, naa')[1].pdf_url = reply.final_url]_vars

\* one negotiation was made, and its final url, which does not end in .pdf, was
\* taken for its media type
C28_Witness ==
    /\ naa.pc = "step7_choose"
    /\ naa.calls.negotiation = 1
    /\ \E k \in 1..Len(naa.candidates_any) :
          naa.candidates_any[k].pdf_url = "https://pub.example/final"

\* step 2 is over: the first ranking call is due or was made
ref2meta_built(n) == n.pc = "step3" \/ n.calls.baseline_llm > 0

\* C29: ref2meta is complete before the first ranking call, one entry per distinct
\* stripped citation holding the hit of that citation's lookup, and no step
\* after step 2 adds, changes or removes an entry; the crossref record step 5
\* stores for a selected citation that is in the list is that citation's hit.
C29_CacheBuiltOnceAndReadOnly ==
    /\ [](ref2meta_built(naa) =>
            /\ DOMAIN naa.ref2meta =
                   {Strip(naa.references_all[k]) : k \in 1..Len(naa.references_all)}
            /\ \A k \in 1..Len(naa.references_all) :
                   /\ naa.ref2meta[Strip(naa.references_all[k])] = naa.crossref_hits[k]
                   /\ naa.crossref_hits[k] = crossref_top_hit(naa.references_all[k])
            /\ \A j \in 1..Len(naa.resolved_results) :
                   \A k \in 1..Len(naa.references_all) :
                       naa.resolved_results[j].reference_string = naa.references_all[k] =>
                           naa.resolved_results[j].crossref = naa.crossref_hits[k])
    /\ [][ref2meta_built(naa) =>
             /\ naa'.ref2meta = naa.ref2meta
             /\ naa'.crossref_hits = naa.crossref_hits
             /\ naa'.references_all = naa.references_all]_vars

\* four citations were looked up, and the records step 5 stored for the second
\* and the third of them are the hits of their own lookups
C29_Witness ==
    /\ naa.pc = "step6"
    /\ naa.references_all = <<S1, S2, S3, S4>>
    /\ Len(naa.resolved_results) = 4
    /\ naa.resolved_results[2].reference_string = S2
    /\ naa.resolved_results[2].crossref.doi = "10.1/jones"
    /\ naa.resolved_results[3].reference_string = S3
    /\ naa.resolved_results[3].crossref.title = "Device"

\* naa_node is in step 7
in_step7(n) ==
    n.pc \in {"step7_harvest", "step7_choose", "step7_remote_compare", "step7_download",
              "step7_upload", "step7_compare"}

\* C30: no step of step 7 (harvest, choice, download, upload, comparison) changes
\* resolved_results or a field of its elements; the list of the success outcome
\* is the list step 6 left, with one element for each identity kept by the dedup.
C30_Step7LeavesResolvedReferences ==
    /\ [][in_step7(naa) => naa'.resolved_results = naa.resolved_results]_vars
    /\ []((naa.pc = "done" /\ naa.result.status = "FINISHED") =>
             /\ naa.result.reference_urls = naa.resolved_results
             /\ naa.result.counts.unique_after_dedup = Len(naa.resolved_results)
             /\ keys_distinct(naa.result.reference_urls))

\* a success outcome after a harvest with negotiation and a GCS comparison: three
\* references returned, one of them with citing works
C30_Witness ==
    /\ naa.pc = "done"
    /\ naa.result.status = "FINISHED"
    /\ naa.calls.compare_llm = 1
    /\ Len(naa.candidates_any) >= 2
    /\ Len(naa.result.reference_urls) = 3
    /\ \E k \in 1..3 : naa.result.reference_urls[k].cited_by > 0

\* C31: between two consecutive page requests of one call of the expander there
\* is a delay step: a page request is never followed at once by the next one, and
\* every request after the first has had its delay.
C31_DelayBetweenPageRequests ==
    /\ [](fetch.pc \notin {"idle"} =>
            /\ fetch.pc = "get" => fetch.sleeps = fetch.requests
            /\ fetch.requests >= 1 => fetch.sleeps >= fetch.requests - 1)
    /\ [][fetch.pc = "get" =>
             /\ fetch'.requests = fetch.requests + 1
             /\ fetch'.sleeps = fetch.sleeps
             /\ fetch'.pc \in {"return", "raise", "sleep"}]_vars
    /\ [][fetch.pc = "sleep" => fetch'.sleeps = fetch.sleeps + 1 /\ fetch'.pc = "loop"]_vars

\* the second page request is due, after the first response and one delay
C31_Witness ==
    /\ fetch.pc = "get"
    /\ fetch.pages = 2
    /\ fetch.requests = 1
    /\ fetch.sleeps = 1
    /\ fetch.js.next_cursor # ""

\* the invocation with doi_count, resolved_ok and the reported counts blanked
without_counts(n) ==
    [n EXCEPT !.doi_count = 0, !.resolved_ok = 0, !.result.counts = NoCounts]

\* what naa_node can do next from its position, for every answer of the service it
\* calls there
naa_successors(n) ==
    CASE n.pc = "precheck" -> {precheck(n)}
      [] n.pc = "step1" -> {step1(n, reply) : reply \in RefsReplies}
      [] n.pc = "step2" -> {step2(n, reply) : reply \in CrossrefReplies}
      [] n.pc = "step3" -> {step3(n, reply) : reply \in RankReplies}
      [] n.pc = "step4" -> {step4(n, reply) : reply \in RankReplies}
      [] n.pc = "step5_by_dois" -> {step5_by_dois(n, reply) : reply \in OpenAlexReplies}
      [] n.pc = "step5_search_title" ->
             {step5_search_title(n, reply) : reply \in OpenAlexReplies}
      [] n.pc = "step6" -> {step6(n, script) : script \in PageScripts}
      [] n.pc = "step7_harvest" ->
             UNION { {step7_harvest(n, reply1, reply2) :
                         reply2 \in negotiation_replies(
                                        negotiation_landing(n.resolved_results[n.i], reply1))} :
                     reply1 \in negotiation_replies(negotiation_doi(n.resolved_results[n.i])) }
      [] n.pc = "step7_choose" ->
             IF candidate_pool(n.candidates_any) = {} THEN {finish(n)}
             ELSE {step7_mode([n EXCEPT !.chosen = c]) : c \in candidate_pool(n.candidates_any)}
      [] n.pc = "step7_remote_compare" ->
             {step7_remote_compare(n, reply) : reply \in CompareReplies}
      [] n.pc = "step7_download" -> {step7_download(n, reply) : reply \in DownloadReplies}
      [] n.pc = "step7_upload" ->
             {step7_upload(n, reply, now) : reply \in {"raise", "ok"}, now \in ClockSeconds}
      [] n.pc = "step7_compare" -> {step7_compare(n, reply) : reply \in CompareReplies}
      [] OTHER -> {}

\* C32: on a success outcome refs_total >= 1, dois_resolved <= refs_total and
\* 1 <= unique_after_dedup <= 4, which is the length of the returned list; the
\* counts are reported only: with the counters blanked naa_node can take the
\* same step to the same state, counters apart.
C32_CountsReportedOnly ==
    /\ []((naa.pc = "done" /\ naa.result.status = "FINISHED") =>
            /\ naa.result.counts.refs_total = Len(naa.references_all)
            /\ naa.result.counts.refs_total >= 1
            /\ naa.result.counts.dois_resolved = doi_count_of(naa.crossref_hits)
            /\ naa.result.counts.dois_resolved <= naa.result.counts.refs_total
            /\ naa.result.counts.unique_after_dedup = Len(naa.result.reference_urls)
            /\ naa.result.counts.unique_after_dedup >= 1
            /\ naa.result.counts.unique_after_dedup <= 4)
    /\ [][naa.pc \notin {"idle", "done"} =>
             \E m \in naa_successors(without_counts(naa)) :
                 without_counts(m) = without_counts(naa')]_vars

\* a success outcome with four citations, two of them with an identifier, and four
\* references left by the dedup
C32_Witness ==
    /\ naa.pc = "done"
    /\ naa.result.status = "FINISHED"
    /\ naa.result.counts.refs_total = 4
    /\ naa.result.counts.dois_resolved = 2
    /\ naa.result.counts.unique_after_dedup = 4

\* C33: when a candidate was chosen, the step-7 result of the outcome is a
\* generated comparison or carries a reason (download, upload or generation
\* error); it is never the bare default {"status": "unclear"}, whatever the
\* download delivered.
C33_ComparisonOrReason ==
    (naa.pc = "done" /\ naa.result.status = "FINISHED" /\ naa.chosen # NoCandidate) =>
        \/ naa.result.temp_step7.status = "" /\ naa.result.temp_step7.same # <<>>
        \/ naa.result.temp_step7.reason # ""

\* C34: an exception of an OpenAlex lookup in step 5 or of a page request in step
\* 6 does not end the invocation and touches no other reference: after a lookup
\* by DOI the citation is stored with the record found, or with an empty work and
\* no title search, or the title search comes next; after a title search it is
\* stored with the hit or with an empty work; a cited-by call that raised leaves
\* an empty cited_by, whatever earlier pages delivered; the next citation or
\* reference is then processed.
C34_LookupErrorsAreLocal ==
    /\ [][naa.pc = "step5_by_dois" =>
             /\ naa'.result = NoResult
             /\ \/ /\ naa'.pc = "step5_search_title"
                   /\ naa'.resolved_results = naa.resolved_results
                \/ naa' = append_resolved(called(naa, "by_dois"),
                                          openalex_work_of_doi(step5_doi(naa)))
                \/ naa' = append_resolved(called(naa, "by_dois"), NoWork)]_vars
    /\ [][naa.pc = "step5_search_title" =>
             /\ naa'.result = NoResult
             /\ \E work \in {NoWork, openalex_work_of_title(
                                StrOr(meta_of(naa, selected_refs(naa)[naa.i]).title,
                                      selected_refs(naa)[naa.i]))} :
                    naa' = append_resolved(called(naa, "search_title"), work)]_vars
    /\ [][(naa.pc \in {"step5_by_dois", "step5_search_title"}
              /\ naa'.pc \in {"step5_by_dois", "step5_search_title"}
              /\ naa'.i # naa.i) =>
             /\ naa'.i = naa.i + 1
             /\ Len(naa'.resolved_results) = Len(naa.resolved_results) + 1
             /\ SubSeq(naa'.resolved_results, 1, Len(naa.resolved_results))
                    = naa.resolved_results]_vars
    /\ [][(naa.pc = "step6" /\ step6_slug(naa) # "") =>
             /\ naa'.result = NoResult
             /\ fetch'.pc \in {"return", "raise"}
             /\ naa'.resolved_results =
                    [naa.resolved_results EXCEPT
                        ![naa.i].cited_by = IF fetch'.pc = "raise" THEN 0 ELSE fetch'.out]
             /\ IF naa.i < Len(naa.resolved_results)
                THEN naa'.pc = "step6" /\ naa'.i = naa.i + 1
                ELSE in_step7(naa')]_vars

\* the cited-by call of the second of two references raised at its second page,
\* after a first page with one citing work: its cited_by is empty, the first
\* reference has its citing works, and step 7 has begun
C34_Witness ==
    /\ naa.pc = "step7_harvest"
    /\ naa.i = 1
    /\ Len(naa.resolved_results) = 2
    /\ fetch.pc = "raise"
    /\ fetch.requests = 2
    /\ fetch.out = 1
    /\ naa.resolved_results[2].cited_by = 0
    /\ naa.resolved_results[1].cited_by > 0

\* a resolved reference without OpenAlex id, DOI, title and year
no_identity(item) ==
    /\ item.openalex_work.openalex_id = ""
    /\ item.openalex_work.doi = "" /\ item.crossref.doi = ""
    /\ item.openalex_work.title = "" /\ item.crossref.title = ""
    /\ item.openalex_work.year = ""

\* C35: the dedup at the end of step 5 merges no references that carry no
\* identity: each reference without OpenAlex id, DOI, title and year that step 5
\* stored is still in the deduplicated list.
C35_UnresolvedBothRetained ==
    [][(naa.pc \in {"step5_by_dois", "step5_search_title"} /\ naa'.pc = "step6") =>
          \A j \in 1..Len(naa.resolved_results) :
              no_identity(naa.resolved_results[j]) =>
                  \E k \in 1..Len(naa'.resolved_results) :
                      naa'.resolved_results[k] = naa.resolved_results[j]]_vars

--------------------------------------------------------------------------
(* The compiled graph (graph.py): ingestion -> idca -> route_from_idca ->   *)
(* novelty | aggregation -> aggregation -> END.                            *)

\* artifacts.idca.status as the idca node can leave it: the three statuses, a
\* string that is none of them, and None (a JSON null)
IdcaStatuses == {"present", "implied", "absent", "unknown", "None"}

\* the route with every status that is not absent sent to novelty
route_from_idca_unless_absent(status) ==
    CASE status = "None"    -> "raise"
      [] status = "absent"  -> "aggregation"
      [] OTHER              -> "novelty"

\* route_from_idca: the next node, or "raise" for ValueError
route_from_idca(status) ==
    CASE status = "None"                 -> "raise"
      [] status = "present"              -> "novelty"
      [] status \in {"implied", "absent"} -> "aggregation"
      [] OTHER                           -> "raise"

\* graph.ainvoke(init): the entry point is due. INVENTION_D_C is idca_node_dummy
\* or the idca_node it stands in for
GraphInit ==
    /\ DedupIdle /\ fetch = FetchIdle /\ naa = NaaIdle /\ StorageIdle
    /\ idca = [pc |-> "idle"] /\ app = [pc |-> "idle"]
    /\ \E uri \in {"gs://amie/doc.pdf", "gs://amie/scan.png", "https://host/doc.pdf"},
          impl \in {"idca_node_dummy", "idca_node"} :
          graph = [pc |-> "ingestion", doc_gcs_uri |-> uri, INVENTION_D_C |-> impl,
                   ran |-> <<>>, status |-> "None",
                   runtime |-> [ia |-> "PENDING", idca |-> "PENDING", naa |-> "PENDING",
                                aa |-> "PENDING"]]

\* a node ran: it returned its patch, or raised and the run ends with the exception
node_ran(g, node, outcome, next) ==
    IF outcome = "raise"
    THEN [g EXCEPT !.ran = Append(@, node), !.pc = "raised"]
    ELSE [g EXCEPT !.ran = Append(@, node), !.runtime[node] = outcome, !.pc = next]

\* ia_node: FAILED for a uri that is not gs://, else FINISHED, FAILED or an exception
GraphIngestion ==
    /\ graph.pc = "ingestion"
    /\ \E outcome \in IF graph.doc_gcs_uri \in {"gs://amie/doc.pdf", "gs://amie/scan.png"}
                      THEN {"FINISHED", "FAILED", "raise"} ELSE {"FAILED"} :
          graph' = node_ran(graph, "ia", outcome, "idca")
    /\ UNCHANGED <<pipelineVars, idca, app>>

\* the idca node: generate_output always reports FINISHED; the dummy always
\* finds the invention present
GraphIdca ==
    /\ graph.pc = "idca"
    /\ \/ \E status \in IF graph.INVENTION_D_C = "idca_node_dummy" THEN {"present"}
                        ELSE IdcaStatuses :
             graph' = [node_ran(graph, "idca", "FINISHED", "route") EXCEPT !.status = status]
       \/ /\ graph.INVENTION_D_C = "idca_node"
          /\ graph' = node_ran(graph, "idca", "raise", "route")
    /\ UNCHANGED <<pipelineVars, idca, app>>

\* the conditional edge after idca
GraphRoute ==
    /\ graph.pc = "route"
    /\ graph' = [graph EXCEPT !.pc = IF route_from_idca(graph.status) = "raise" THEN "raised"
                                     ELSE route_from_idca(graph.status)]
    /\ UNCHANGED <<pipelineVars, idca, app>>

\* naa_node: FINISHED, FAILED or an exception
GraphNovelty ==
    /\ graph.pc = "novelty"
    /\ \E outcome \in {"FINISHED", "FAILED", "raise"} :
          graph' = node_ran(graph, "naa", outcome, "aggregation")
    /\ UNCHANGED <<pipelineVars, idca, app>>

\* aa_node, then END
GraphAggregation ==
    /\ graph.pc = "aggregation"
    /\ graph' = node_ran(graph, "aa", "FINISHED", "END")
    /\ UNCHANGED <<pipelineVars, idca, app>>

GraphNext == GraphIngestion \/ GraphIdca \/ GraphRoute \/ GraphNovelty \/ GraphAggregation

SpecGraph == GraphInit /\ [][GraphNext]_vars

\* C36: a run of the graph goes ingestion, idca, then novelty only when
\* artifacts.idca.status is "present", then aggregation, then END; with
\* "implied" or "absent" novelty does not run; a missing or unrecognised status
\* raises; a run that does not raise runs aggregation once, last; a FAILED
\* ingestion or novelty does not keep the following nodes from running.
C36_NodeOrder ==
    /\ [](graph.pc # "idle" =>
            LET has(node) == \E k \in 1..Len(graph.ran) : graph.ran[k] = node
                routed == graph.runtime.idca = "FINISHED" /\ graph.pc # "route"
            IN  /\ graph.ran \in {<<>>, <<"ia">>, <<"ia", "idca">>, <<"ia", "idca", "naa">>,
                                  <<"ia", "idca", "aa">>, <<"ia", "idca", "naa", "aa">>}
                /\ graph.pc = "END" <=> has("aa")
                /\ (graph.pc = "novelty" \/ has("naa")) <=> (routed /\ graph.status = "present")
                /\ (routed /\ graph.status \in {"implied", "absent"}) =>
                       (graph.pc \in {"aggregation", "END"} /\ ~has("naa"))
                /\ (routed /\ graph.status \in {"None", "unknown"}) =>
                       (graph.pc = "raised" /\ graph.ran = <<"ia", "idca">>)
                /\ graph.pc \in {"ingestion", "idca", "route", "novelty", "aggregation",
                                 "END", "raised"})
    /\ [][(graph.pc = "ingestion" /\ graph'.runtime.ia = "FAILED") => graph'.pc = "idca"]_vars
    /\ [][(graph.pc = "novelty" /\ graph'.runtime.naa = "FAILED") =>
             graph'.pc = "aggregation"]_vars
    /\ [][graph.pc = "aggregation" => graph'.pc = "END"]_vars

\* a run reached END without novelty, the status being "implied", after a
\* FAILED ingestion
C36_Witness ==
    /\ graph.pc = "END"
    /\ graph.status = "implied"
    /\ graph.runtime.ia = "FAILED"
    /\ graph.ran = <<"ia", "idca", "aa">>

--------------------------------------------------------------------------
(* The API process (app/main.py) on the InMemoryStore (app/store.py), for   *)
(* one request id. Python objects are cells of a heap, named by their      *)
(* index; deepcopy allocates a new cell.                                   *)

MaxPolls == 2

\* get_state returning the stored object itself
get_state_no_copy(a) == [a EXCEPT !.returned = a.stored]

\* deepcopy(obj) put at the end of the heap
deepcopy(a, obj) == [a EXCEPT !.heap = Append(@, a.heap[obj])]

\* InMemoryStore.save_state: self._data[request_id] = deepcopy(state)
save_state(a, state) == [deepcopy(a, state) EXCEPT !.stored = Len(a.heap) + 1]

\* InMemoryStore.update_state: base.update(patch) on the stored object, then
\* self._data[request_id] = deepcopy(base)
update_state(a, status) ==
    save_state([a EXCEPT !.heap[a.stored].status = status], a.stored)

\* InMemoryStore.get_state: deepcopy(self._data.get(request_id))
get_state(a) == [deepcopy(a, a.stored) EXCEPT !.returned = Len(a.heap) + 1]

\* /invoke has built init (status PENDING); nothing is stored yet
AppInit ==
    /\ DedupIdle /\ fetch = FetchIdle /\ naa = NaaIdle /\ StorageIdle
    /\ graph = [pc |-> "idle"] /\ idca = [pc |-> "idle"]
    /\ app = [pc |-> "invoke", heap |-> << [status |-> "PENDING", naa |-> "PENDING", errors |-> 0] >>,
              stored |-> 0, init |-> 1, local |-> 0, returned |-> 0, held |-> {},
              seen |-> <<>>, raised |-> FALSE]

\* await store.save_state(request_id, init); the task is queued, the id returned
AppInvoke ==
    /\ app.pc = "invoke"
    /\ app' = [save_state(app, app.init) EXCEPT !.pc = "queued"]
    /\ UNCHANGED <<pipelineVars, graph, idca>>

\* run_graph: await store.update_state(request_id, {"status": "RUNNING", ...})
AppRunning ==
    /\ app.pc = "queued"
    /\ app' = [update_state(app, "RUNNING") EXCEPT !.pc = "graph"]
    /\ UNCHANGED <<pipelineVars, graph, idca>>

\* result = await graph.ainvoke(init, ...): a new state whose novelty stage
\* FINISHED or FAILED, with result["status"] = "FINISHED"; or an exception
AppGraph ==
    /\ app.pc = "graph"
    /\ \/ \E sub \in {"FINISHED", "FAILED", "PENDING"} :
             app' = [app EXCEPT !.heap = Append(@, [status |-> "FINISHED", naa |-> sub,
                                                    errors |-> 0]),
                                !.local = Len(app.heap) + 1,
                                !.pc = "save_result"]
       \/ app' = [app EXCEPT !.raised = TRUE, !.pc = "get_failed"]
    /\ UNCHANGED <<pipelineVars, graph, idca>>

\* await store.save_state(request_id, result)
AppSaveResult ==
    /\ app.pc = "save_result"
    /\ app' = [save_state(app, app.local) EXCEPT !.pc = "done"]
    /\ UNCHANGED <<pipelineVars, graph, idca>>

\* failed = await store.get_state(request_id); errors.append; failed["status"] = "FAILED"
AppGetFailed ==
    /\ app.pc = "get_failed"
    /\ app' = [get_state(app) EXCEPT !.local = Len(app.heap) + 1,
                                     !.returned = app.returned,
                                     !.heap[Len(app.heap) + 1].status = "FAILED",
                                     !.heap[Len(app.heap) + 1].errors = @ + 1,
                                     !.pc = "save_failed"]
    /\ UNCHANGED <<pipelineVars, graph, idca>>

\* await store.save_state(request_id, failed)
AppSaveFailed ==
    /\ app.pc = "save_failed"
    /\ app' = [save_state(app, app.local) EXCEPT !.pc = "done"]
    /\ UNCHANGED <<pipelineVars, graph, idca>>

\* GET /state/{request_id} or /debug_state/{request_id} once the id is known: the
\* client holds what get_state returned and has seen its status
AppPoll ==
    /\ app.pc # "invoke"
    /\ Len(app.seen) < MaxPolls
    /\ app' = [get_state(app) EXCEPT !.held = @ \cup {get_state(app).returned},
                                     !.seen = Append(@, app.heap[app.stored].status)]
    /\ UNCHANGED <<pipelineVars, graph, idca>>

\* the holder of a returned object, or of an object that was saved (init, result,
\* failed), writes to it
AppMutate ==
    /\ \E obj \in app.held \cup ({app.init, app.local} \ {0}) :
          /\ app.pc # "invoke"
          /\ obj = app.local => app.pc = "done"
          /\ app.heap[obj].status # "MUTATED"
          /\ app' = [app EXCEPT !.heap[obj].status = "MUTATED"]
    /\ UNCHANGED <<pipelineVars, graph, idca>>

AppNext ==
    \/ AppInvoke \/ AppRunning \/ AppGraph \/ AppSaveResult \/ AppGetFailed
    \/ AppSaveFailed \/ AppPoll \/ AppMutate

SpecApp == AppInit /\ [][AppNext]_vars

\* the stored global status of the request, "" while nothing is stored
stored_status(a) == IF a.pc = "idle" \/ a.stored = 0 THEN "" ELSE a.heap[a.stored].status

\* C37: the stored status of a request only moves PENDING -> RUNNING -> FINISHED
\* or FAILED and stays once FINISHED or FAILED; it is FAILED iff the graph
\* raised, FINISHED also when the novelty stage returned FAILED; a poll sees one
\* of these stored statuses in an object of its own, and writing to a returned
\* or saved object leaves the stored state as it is.
C37_StoredStatusLifecycle ==
    /\ [](app.pc \notin {"idle", "invoke"} =>
            /\ stored_status(app) \in {"PENDING", "RUNNING", "FINISHED", "FAILED"}
            /\ stored_status(app) = "PENDING" <=> app.pc = "queued"
            /\ stored_status(app) = "RUNNING" <=>
                   app.pc \in {"graph", "save_result", "get_failed", "save_failed"}
            /\ stored_status(app) = "FAILED" <=> (app.pc = "done" /\ app.raised)
            /\ stored_status(app) = "FINISHED" <=> (app.pc = "done" /\ ~app.raised)
            /\ app.stored \notin app.held \cup {app.init, app.local}
            /\ \A k \in 1..Len(app.seen) :
                   /\ app.seen[k] \in {"PENDING", "RUNNING", "FINISHED", "FAILED"}
                   /\ k = Len(app.seen) =>
                          <<app.seen[k], stored_status(app)>> \in
                              {<<"PENDING", "PENDING">>, <<"PENDING", "RUNNING">>,
                               <<"PENDING", "FINISHED">>, <<"PENDING", "FAILED">>,
                               <<"RUNNING", "RUNNING">>, <<"RUNNING", "FINISHED">>,
                               <<"RUNNING", "FAILED">>, <<"FINISHED", "FINISHED">>,
                               <<"FAILED", "FAILED">>})
    /\ [][stored_status(app) # stored_status(app') =>
             <<stored_status(app), stored_status(app')>> \in
                 {<<"", "PENDING">>, <<"PENDING", "RUNNING">>, <<"RUNNING", "FINISHED">>,
                  <<"RUNNING", "FAILED">>}]_vars
    /\ [][(app.pc = app'.pc /\ app.pc # "idle" /\ app.stored # 0) =>
             app'.heap[app'.stored] = app.heap[app.stored]]_vars

\* the run ended FINISHED although its novelty stage returned FAILED; one poll
\* saw RUNNING, a later one FINISHED, and the first returned object was written to
C37_Witness ==
    /\ app.pc = "done"
    /\ stored_status(app) = "FINISHED"
    /\ app.heap[app.stored].naa = "FAILED"
    /\ app.seen = <<"RUNNING", "FINISHED">>
    /\ \E obj \in app.held : app.heap[obj].status = "MUTATED"

--------------------------------------------------------------------------
(* The classification stage idca_node (agents/idca.py), given a config     *)
(* that carries a genai client.                                            *)

\* range(5) of each retry loop
MaxAttempts == 5

Step1Keys == {"fields_needed", "manuscript_type", "title", "authors"}
Step2Keys == {"status", "reasoning", "patent_type"}
Step3Keys == {"summary"}

Nothing == [shape |-> "None", keys |-> {}, status |-> ""]

\* what call_LLM returns: None when the call or json.loads raised (or the text
\* is null), else the parsed value: an array, or an object with some keys
LLMReplies(required) ==
    {Nothing, [shape |-> "list", keys |-> {}, status |-> ""]}
      \cup UNION {{[shape |-> "object", keys |-> ks, status |-> st] :
                      st \in IF "status" \in ks THEN {"present", "implied", "absent"}
                                                ELSE {""}} :
                    ks \in {{}, required \cap {"title", "status", "summary"}, required}}

\* Python truth of a parsed value: None, {} are false
truthy(v) == v.shape = "list" \/ (v.shape = "object" /\ v.keys # {})

\* v[k] for every k of keys evaluates
subscripts(v, keys) == v.shape = "object" /\ keys \subseteq v.keys

\* generate_output(log, step1, step2, step3)
generate_output(s1, s2, s3) ==
    IF \/ truthy(s1) /\ ~subscripts(s1, Step1Keys)
       \/ truthy(s2) /\ ~subscripts(s2, Step2Keys)
       \/ truthy(s3) /\ ~subscripts(s3, Step3Keys)
    THEN [pc |-> "raised"]
    ELSE [pc |-> "done", runtime |-> "FINISHED",
          status |-> IF truthy(s2) THEN s2.status ELSE "absent",
          summary |-> truthy(s3)]

IdcaInit ==
    /\ DedupIdle /\ fetch = FetchIdle /\ naa = NaaIdle /\ StorageIdle
    /\ graph = [pc |-> "idle"] /\ app = [pc |-> "idle"]
    /\ idca = [pc |-> "step1", step1 |-> Nothing, step2 |-> Nothing, step3 |-> Nothing,
               calls |-> [k \in 1..3 |-> 0], out |-> [pc |-> "none"]]

\* idca after the node has returned or raised with generate_output's outcome
returned(i, out) == [i EXCEPT !.pc = out.pc, !.out = out]

\* one pass of the step 1 loop, and what follows the loop when it ends
IdcaStep1 ==
    /\ idca.pc = "step1"
    /\ \E reply \in LLMReplies(Step1Keys) :
          LET i == [idca EXCEPT !.calls[1] = @ + 1, !.step1 = reply]
          IN  idca' = IF reply # Nothing THEN [i EXCEPT !.pc = "step2"]
                      ELSE IF i.calls[1] = MaxAttempts
                           THEN returned(i, generate_output(Nothing, Nothing, Nothing))
                           ELSE i
    /\ UNCHANGED <<pipelineVars, graph, app>>

\* one pass of the step 2 loop, and what follows it: step2["status"] != "present"
IdcaStep2 ==
    /\ idca.pc = "step2"
    /\ \E reply \in LLMReplies(Step2Keys) :
          LET i == [idca EXCEPT !.calls[2] = @ + 1, !.step2 = reply]
          IN  idca' = IF reply # Nothing
                      THEN IF ~subscripts(reply, {"status"})
                           THEN returned(i, [pc |-> "raised"])
                           ELSE IF reply.status # "present"
                                THEN returned(i, generate_output(i.step1, reply, Nothing))
                                ELSE [i EXCEPT !.pc = "step3"]
                      ELSE IF i.calls[2] = MaxAttempts
                           THEN returned(i, generate_output(i.step1, Nothing, Nothing))
                           ELSE i
    /\ UNCHANGED <<pipelineVars, graph, app>>

\* one pass of the step 3 loop, and what follows it
IdcaStep3 ==
    /\ idca.pc = "step3"
    /\ \E reply \in LLMReplies(Step3Keys) :
          LET i == [idca EXCEPT !.calls[3] = @ + 1, !.step3 = reply]
          IN  idca' = IF reply # Nothing \/ i.calls[3] = MaxAttempts
                      THEN returned(i, generate_output(i.step1, i.step2, reply))
                      ELSE i
    /\ UNCHANGED <<pipelineVars, graph, app>>

IdcaNext == IdcaStep1 \/ IdcaStep2 \/ IdcaStep3

SpecIdca == IdcaInit /\ [][IdcaNext]_vars

\* C38: each step is attempted at most 5 times and not again after its first
\* parsed reply; when all 5 attempts of a step fail no later step is attempted
\* and the node returns runtime status FINISHED, never an exception, with
\* classification "absent" if it was step 1; step 3 is attempted only when the
\* classification is "present".
C38_RetryThenFinished ==
    idca.pc # "idle" =>
        /\ \A k \in 1..3 : idca.calls[k] <= MaxAttempts
        /\ idca.calls[2] > 0 => idca.step1 # Nothing
        /\ idca.calls[3] > 0 => idca.step2 # Nothing /\ idca.step2.status = "present"
        /\ idca.pc = "step2" => idca.calls[2] < MaxAttempts /\ idca.step2 = Nothing
        /\ idca.pc = "step3" => idca.calls[3] < MaxAttempts /\ idca.step3 = Nothing
        /\ idca.pc = "done" => idca.out.runtime = "FINISHED"
        /\ (idca.pc = "done" /\ idca.step1 = Nothing) => idca.out.status = "absent"
        /\ \/ idca.pc \in {"step1", "step2", "step3", "done"}
           \/ \A k \in 1..3 : ~(idca.calls[k] = MaxAttempts /\
                                 <<idca.step1, idca.step2, idca.step3>>[k] = Nothing)

==========================================================================
